---- MODULE Spec2Model ----
(***************************************************************************)
(* Boardify game engine: the universal data-driven card game engine        *)
(* (services/engines/universal.py), the Exploding Kittens plugin           *)
(* (services/engines/exploding_kittens.py), game start-up                  *)
(* (services/game_loader.py) and the room layer (routers/rooms.py,         *)
(* services/room_manager.py).                                              *)
(*                                                                         *)
(* A GameState is a record; every Python handler is an operator from a     *)
(* GameState (and an action) to the handler's return value together with   *)
(* the GameState it leaves behind.  random.shuffle / random.choice /       *)
(* random.randint are inputs of the action (the field rnd of an action).   *)
(***************************************************************************)
EXTENDS Integers, Sequences, FiniteSets, TLC

VARIABLES
    state,      \* the room's GameState (models/game.py GameState)
    pc,         \* "idle": no call in progress; "returned": apply_action / start returned
    last,       \* the action of the call that returned (ActionRequest)
    pre,        \* the GameState the call was made on
    result,     \* the call's return value (success, error, triggered)
    room,       \* the room_action requests being handled concurrently
    net         \* ROOM_CONNECTIONS[room_code], the sockets and a broadcast_state run

vars == <<state, pc, last, pre, result, room, net>>

\* ------------------------------------------------------------------ bounds

\* turnNumber at which the model stops taking further calls
MaxTurn == 4
\* random.shuffle is modelled by the rotations 0..MaxShuffle of the list
MaxShuffle == 1
\* room_action requests in flight at the same time
MaxTasks == 2
\* room_action requests one room receives under concurrent handling
MaxRequests == 2

\* ------------------------------------------------------------- sequences

Min(a, b) == IF a < b THEN a ELSE b
Max(a, b) == IF a > b THEN a ELSE b

Range(seq) == {seq[i] : i \in 1..Len(seq)}

\* list.insert(pos, x) with 0 <= pos <= len
InsertAt(seq, pos, x) ==
    SubSeq(seq, 1, pos) \o <<x>> \o SubSeq(seq, pos + 1, Len(seq))

\* list.pop(idx) leaves this behind (idx is 0-based)
RemoveIdx(seq, idx) ==
    SubSeq(seq, 1, idx) \o SubSeq(seq, idx + 2, Len(seq))

\* 0-based index of the first element satisfying Test, or -1
FirstIdx(seq, Test(_)) ==
    IF \E i \in 1..Len(seq) : Test(seq[i])
    THEN (CHOOSE i \in 1..Len(seq) : Test(seq[i]) /\ \A j \in 1..(i-1) : ~Test(seq[j])) - 1
    ELSE -1

\* list.remove(x): drops the first element equal to x
Remove(seq, x) ==
    LET Eq(y) == y = x
        i == FirstIdx(seq, Eq)
    IN IF i < 0 THEN seq ELSE RemoveIdx(seq, i)

\* one outcome of random.shuffle: the list rotated left by k
Rotate(seq, k) ==
    IF Len(seq) = 0 THEN seq
    ELSE LET r == k % Len(seq)
         IN SubSeq(seq, r + 1, Len(seq)) \o SubSeq(seq, 1, r)

\* how often x occurs in seq
Count(seq, x) == Cardinality({i \in 1..Len(seq) : seq[i] = x})

\* ------------------------------------------------------- game definitions

NoCond == <<>>

Eff(t, v, tgt) == [type |-> t, value |-> v, target |-> tgt, conditions |-> NoCond]

\* CardDefinition (models/game.py): id, subtype, effects, count and the
\* metadata keys setup_game reads.
\* injectCount is "players_minus_one" or a number (n; 0: no injection).
CardDef(id, sub, effs, cnt, guaranteed, notInStart, inject, color, number) ==
    [id |-> id, subtype |-> sub, effects |-> effs, count |-> cnt,
     guaranteedInStartHand |-> guaranteed, notInStartDeck |-> notInStart,
     injectCount |-> inject, color |-> color, number |-> number]

PlayersMinusOne == [mode |-> "players_minus_one", n |-> 0]
NoInject == [mode |-> "int", n |-> 0]

\* The Exploding Kittens definition: one Defuse guaranteed in a starting
\* hand, bombs injected after the deal (players - 1), Skip, Nope and Attack.
EKCards == <<
    CardDef("defuse", "defuse", <<Eff("defuse", 0, "self")>>, 1, TRUE, FALSE, NoInject, "", -1),
    CardDef("exploding", "exploding", <<Eff("eliminate", 0, "self")>>, 0, FALSE, TRUE, PlayersMinusOne, "", -1),
    CardDef("skip", "skip", <<Eff("skip", 0, "self")>>, 2, FALSE, FALSE, NoInject, "", -1),
    CardDef("nope", "nope", <<Eff("cancel", 0, "self")>>, 2, FALSE, FALSE, NoInject, "", -1),
    CardDef("attack", "attack", <<Eff("attack", 0, "next_player")>>, 1, FALSE, FALSE, NoInject, "", -1)
>>

EKGame == [
    gameId   |-> "exploding_kittens",
    plugin   |-> "exploding_kittens",
    cards    |-> EKCards,
    rules    |-> [minPlayers |-> 2, maxPlayers |-> 3, handSize |-> 2,
                  drawCount |-> 1, winCondition |-> "last_standing", targetScore |-> 500],
    config   |-> [matchColor |-> FALSE, matchNumber |-> FALSE, matchType |-> FALSE,
                  stackableDraw |-> FALSE, wildAlwaysPlayable |-> TRUE,
                  startWithDiscard |-> FALSE, allowWildDraw4Challenge |-> FALSE,
                  reverseEqualsSkipTwoPlayers |-> FALSE, drawUntilPlayable |-> FALSE,
                  colors |-> <<>>, excludeFromStartDiscard |-> {},
                  defaultActions |-> FALSE]
]

\* An elimination game run by the universal engine alone (no plugin): the
\* bomb is an ordinary card whose effect eliminates the player who plays it.
BombCards == <<
    CardDef("bomb", "exploding", <<Eff("eliminate", 0, "self")>>, 2, FALSE, FALSE, NoInject, "", -1),
    CardDef("defuse", "defuse", <<Eff("defuse", 0, "self")>>, 2, FALSE, FALSE, NoInject, "", -1),
    CardDef("again", "again", <<Eff("extra_turn", 0, "self")>>, 1, FALSE, FALSE, NoInject, "", -1),
    CardDef("cat", "cat", <<Eff("any", 0, "self")>>, 2, FALSE, FALSE, NoInject, "", -1)
>>

BombGame == [
    gameId   |-> "bombs",
    plugin   |-> "",
    cards    |-> BombCards,
    rules    |-> [minPlayers |-> 2, maxPlayers |-> 2, handSize |-> 2,
                  drawCount |-> 1, winCondition |-> "last_standing", targetScore |-> 500],
    config   |-> [matchColor |-> FALSE, matchNumber |-> FALSE, matchType |-> FALSE,
                  stackableDraw |-> FALSE, wildAlwaysPlayable |-> TRUE,
                  startWithDiscard |-> FALSE, allowWildDraw4Challenge |-> FALSE,
                  reverseEqualsSkipTwoPlayers |-> FALSE, drawUntilPlayable |-> FALSE,
                  colors |-> <<>>, excludeFromStartDiscard |-> {},
                  defaultActions |-> FALSE]
]

\* A colour-matching shedding game run by the universal engine alone, with
\* stackable forced draws.
StackCards == <<
    CardDef("red_1", "number", <<Eff("number", 0, "")>>, 2, FALSE, FALSE, NoInject, "red", 1),
    CardDef("blue_1", "number", <<Eff("number", 0, "")>>, 1, FALSE, FALSE, NoInject, "blue", 1),
    CardDef("red_draw2", "draw2", <<Eff("draw", 2, "next_player")>>, 2, FALSE, FALSE, NoInject, "red", -1),
    CardDef("blue_skip", "skip", <<Eff("skip", 1, "")>>, 1, FALSE, FALSE, NoInject, "blue", -1),
    CardDef("wild", "wild", <<Eff("wild", 0, "")>>, 1, FALSE, FALSE, NoInject, "wild", -1)
>>

StackGame == [
    gameId   |-> "stack",
    plugin   |-> "",
    cards    |-> StackCards,
    rules    |-> [minPlayers |-> 2, maxPlayers |-> 2, handSize |-> 2,
                  drawCount |-> 1, winCondition |-> "empty_hand", targetScore |-> 500],
    config   |-> [matchColor |-> TRUE, matchNumber |-> TRUE, matchType |-> TRUE,
                  stackableDraw |-> TRUE, wildAlwaysPlayable |-> TRUE,
                  startWithDiscard |-> TRUE, allowWildDraw4Challenge |-> FALSE,
                  reverseEqualsSkipTwoPlayers |-> TRUE, drawUntilPlayable |-> FALSE,
                  colors |-> <<"red", "blue">>, excludeFromStartDiscard |-> {"wild"},
                  defaultActions |-> TRUE]
]

\* A colour-matching shedding game with the uno_plus_1000 plugin: forced
\* draws do not stack (stackableDraw false).
Uno1000Cards == <<
    CardDef("red_1", "number", <<Eff("number", 0, "")>>, 5, FALSE, FALSE, NoInject, "red", 1),
    CardDef("wild_draw", "wild_draw_four", <<Eff("wild_draw", 2, "next_player")>>, 1, FALSE, FALSE,
            NoInject, "wild", -1)
>>

Uno1000Game == [
    gameId   |-> "uno_plus_1000",
    plugin   |-> "uno_plus_1000",
    cards    |-> Uno1000Cards,
    rules    |-> [minPlayers |-> 2, maxPlayers |-> 2, handSize |-> 2,
                  drawCount |-> 1, winCondition |-> "empty_hand", targetScore |-> 500],
    config   |-> [matchColor |-> TRUE, matchNumber |-> FALSE, matchType |-> FALSE,
                  stackableDraw |-> FALSE, wildAlwaysPlayable |-> TRUE,
                  startWithDiscard |-> TRUE, allowWildDraw4Challenge |-> FALSE,
                  reverseEqualsSkipTwoPlayers |-> TRUE, drawUntilPlayable |-> FALSE,
                  colors |-> <<"red", "blue">>, excludeFromStartDiscard |-> {"wild_draw_four"},
                  defaultActions |-> FALSE]
]

\* A second card list for the Exploding Kittens plugin: a game file that gives
\* one card a wild effect without defining the colours the effect requires.
RainbowCards == <<
    CardDef("defuse", "defuse", <<Eff("defuse", 0, "self")>>, 1, TRUE, FALSE, NoInject, "", -1),
    CardDef("exploding", "exploding", <<Eff("eliminate", 0, "self")>>, 0, FALSE, TRUE, PlayersMinusOne, "", -1),
    CardDef("skip", "skip", <<Eff("skip", 0, "self")>>, 2, FALSE, FALSE, NoInject, "", -1),
    CardDef("rainbow", "rainbow", <<Eff("wild", 0, ""), Eff("attack", 0, "next_player")>>, 2,
            FALSE, FALSE, NoInject, "", -1)
>>

RainbowGame == [EKGame EXCEPT !.gameId = "kittens_rainbow", !.cards = RainbowCards,
                              !.rules.maxPlayers = 2]

\* An elimination game run by the universal engine alone whose bomb follows
\* the card example of the game generator: the eliminate effect carries the
\* condition has_card_type defuse; one bomb also lists a defuse effect. The
\* cat lists an effect type no handler exists for ("purr") before its skip;
\* plain_cat is the same card without that effect (no copy is in the deck).
\* The swap card exchanges the hands of its player and a chosen player.
HasDefuse == <<[type |-> "has_card_type", value |-> "defuse"]>>

GuardedCards == <<
    CardDef("bomb", "exploding",
            <<[Eff("eliminate", 0, "self") EXCEPT !.conditions = HasDefuse]>>, 1,
            FALSE, FALSE, NoInject, "", -1),
    CardDef("kitten", "exploding",
            <<[Eff("eliminate", 0, "self") EXCEPT !.conditions = HasDefuse],
              Eff("defuse", 0, "self")>>, 1,
            FALSE, FALSE, NoInject, "", -1),
    CardDef("defuse", "defuse", <<Eff("defuse", 0, "self")>>, 1, FALSE, FALSE, NoInject, "", -1),
    CardDef("cat", "cat", <<Eff("purr", 0, "self"), Eff("skip", 1, "")>>, 1,
            FALSE, FALSE, NoInject, "", -1),
    CardDef("plain_cat", "cat", <<Eff("skip", 1, "")>>, 0, FALSE, FALSE, NoInject, "", -1),
    CardDef("swap", "swap", <<Eff("swap_hands", 0, "choose")>>, 1, FALSE, FALSE, NoInject, "", -1)
>>

GuardedGame == [BombGame EXCEPT !.gameId = "guarded_bombs", !.cards = GuardedCards]

\* The uno_plus_1000 game for three players with the Wild Draw challenge
\* switched on.
ChallengeGame == [Uno1000Game EXCEPT !.gameId = "uno_challenge",
                                     !.rules.minPlayers = 3, !.rules.maxPlayers = 3,
                                     !.config.allowWildDraw4Challenge = TRUE]

\* A colour-matching shedding game with the uno plugin for two or three
\* players, the Wild Draw challenge switched on.
UnoCards == <<
    CardDef("red_1", "number", <<Eff("number", 0, "")>>, 6, FALSE, FALSE, NoInject, "red", 1),
    CardDef("red_reverse", "reverse", <<Eff("reverse", 0, "")>>, 2, FALSE, FALSE, NoInject, "red", -1),
    CardDef("blue_1", "number", <<Eff("number", 0, "")>>, 2, FALSE, FALSE, NoInject, "blue", 1),
    CardDef("wild_draw4", "wild_draw4", <<Eff("wild_draw", 2, "next_player")>>, 1, FALSE, FALSE,
            NoInject, "wild", -1)
>>

UnoGame == [Uno1000Game EXCEPT !.gameId = "uno", !.plugin = "uno", !.cards = UnoCards,
                               !.rules.minPlayers = 2, !.rules.maxPlayers = 3,
                               !.config.allowWildDraw4Challenge = TRUE,
                               !.config.excludeFromStartDiscard = {"wild_draw4"}]

\* The stack game with a plugin whose on_card_played hook vetoes plays.
HouseGame == [StackGame EXCEPT !.gameId = "house_stack", !.plugin = "house_rules",
                               !.config.defaultActions = FALSE]

\* A third card list for the Exploding Kittens plugin: two Attacks, so that an
\* Attack can answer an Attack, and the cards that do not end a turn: Favor,
\* Shuffle and See the Future.
PartyCards == <<
    CardDef("defuse", "defuse", <<Eff("defuse", 0, "self")>>, 1, TRUE, FALSE, NoInject, "", -1),
    CardDef("exploding", "exploding", <<Eff("eliminate", 0, "self")>>, 0, FALSE, TRUE, PlayersMinusOne, "", -1),
    CardDef("attack", "attack", <<Eff("attack", 0, "next_player")>>, 2, FALSE, FALSE, NoInject, "", -1),
    CardDef("favor", "favor", <<Eff("give", 1, "choose_player")>>, 1, FALSE, FALSE, NoInject, "", -1),
    CardDef("shuffle", "shuffle", <<Eff("shuffle", 0, "self")>>, 1, FALSE, FALSE, NoInject, "", -1),
    CardDef("see_future", "see_future", <<Eff("peek", 3, "self")>>, 1, FALSE, FALSE, NoInject, "", -1)
>>

PartyGame == [EKGame EXCEPT !.gameId = "kittens_party", !.cards = PartyCards,
                            !.rules.maxPlayers = 2]

GameTypes == {"exploding_kittens", "bombs", "stack", "uno_plus_1000"}

Game(gameType) ==
    CASE gameType = "exploding_kittens" -> EKGame
      [] gameType = "bombs" -> BombGame
      [] gameType = "stack" -> StackGame
      [] gameType = "uno_plus_1000" -> Uno1000Game
      [] gameType = "kittens_rainbow" -> RainbowGame
      [] gameType = "guarded_bombs" -> GuardedGame
      [] gameType = "uno_challenge" -> ChallengeGame
      [] gameType = "kittens_party" -> PartyGame
      [] gameType = "uno" -> UnoGame
      [] gameType = "house_stack" -> HouseGame

\* ------------------------------------------------------------- GameState

NoCard == [id |-> "", definitionId |-> "", color |-> ""]

\* pendingAction = None
NoPending == [type |-> "none", playerId |-> 0, targetPlayerId |-> 0,
              cardId |-> "", card |-> NoCard, effects |-> <<>>,
              originalAction |-> [playerId |-> 0, cardId |-> "", targetPlayerId |-> 0, comboPairId |-> ""],
              nopeCount |-> 0, deckSize |-> 0, drawCount |-> 0, isWildDraw |-> FALSE,
              drawN |-> 0, challengedPlayerId |-> 0]

\* Player (models/game.py); ids are 1, 2, ... in joining order
NewPlayer(id) == [id |-> id, name |-> <<"ann", "bob", "cy">>[id], status |-> "waiting",
                  hand |-> <<>>, isCurrentTurn |-> FALSE]

\* game_loader.create_initial_state: a lobby with the host
create_initial_state(gameType) ==
    [gameType |-> gameType, phase |-> "lobby", players |-> <<NewPlayer(1)>>,
     draw |-> <<>>, discard |-> <<>>, hasZones |-> FALSE,
     currentTurnPlayerId |-> 0, turnNumber |-> 0, winner |-> 0,
     pendingAction |-> NoPending,
     metadata |-> [hostId |-> 1, direction |-> 1, pendingDraw |-> 0,
                   attacks_pending |-> 0, activeColor |-> "",
                   extraTurn |-> 0, unoCalledBy |-> {}, hasUnoCalledBy |-> FALSE,
                   lastWildDraw4WasIllegal |-> FALSE,
                   lastWildDrawWasIllegal |-> FALSE, scores |-> <<>>]]

DefById(g, did) ==
    LET i == CHOOSE i \in 1..Len(g.cards) : g.cards[i].id = did IN g.cards[i]

CardDefOf(s, c) == DefById(Game(s.gameType), c.definitionId)
Subtype(s, c) == IF c.definitionId = "" THEN "" ELSE CardDefOf(s, c).subtype
Effects(s, c) == IF c.definitionId = "" THEN <<>> ELSE CardDefOf(s, c).effects

\* universal._cfg
_cfg(s) == Game(s.gameType).config

\* universal._active
_active(s) == SelectSeq(s.players, LAMBDA p : p.status \notin {"eliminated", "winner"})

Ids(ps) == [i \in 1..Len(ps) |-> ps[i].id]

\* universal._get_player: the player's position in state.players, 0 for None
_get_player(s, pid) ==
    IF \E i \in 1..Len(s.players) : s.players[i].id = pid
    THEN CHOOSE i \in 1..Len(s.players) : s.players[i].id = pid
    ELSE 0

\* list.index(x), -1 standing for ValueError
IndexOf(seq, x) ==
    LET Eq(y) == y = x IN FirstIdx(seq, Eq)

Hand(s, pid) == s.players[_get_player(s, pid)].hand

SetHand(s, pid, h) ==
    [s EXCEPT !.players[_get_player(s, pid)].hand = h]

\* for p in state.players: p.isCurrentTurn = p.id == nxt; currentTurnPlayerId = nxt
SetCurrent(s, nxt) ==
    [s EXCEPT !.players = [i \in 1..Len(s.players) |->
                              [s.players[i] EXCEPT !.isCurrentTurn = (s.players[i].id = nxt)]],
              !.currentTurnPlayerId = nxt]

\* ------------------------------------------------------------------ setup

NewCard(defn, id) == [id |-> id, definitionId |-> defn.id, color |-> defn.color]

Copies(defn) == [i \in 1..defn.count |-> NewCard(defn, defn.id \o "_" \o ToString(i - 1))]

RECURSIVE BuildFrom(_, _)
BuildFrom(defs, k) ==
    IF k > Len(defs) THEN <<>>
    ELSE (IF defs[k].notInStartDeck THEN <<>> ELSE Copies(defs[k])) \o BuildFrom(defs, k + 1)

\* game_loader.build_deck_from_definitions with exclude_ids = the notInStartDeck ids
build_deck_from_definitions(defs) == BuildFrom(defs, 1)

\* setup_game's inner loop: one card of every guaranteedInStartHand definition
\* still in the deck goes to the hand; returns <<hand, deck>>
RECURSIVE DealGuaranteed(_, _, _, _)
DealGuaranteed(defs, k, hand, deck) ==
    IF k > Len(defs) THEN <<hand, deck>>
    ELSE LET Match(c) == c.definitionId = defs[k].id
             i == FirstIdx(deck, Match)
         IN IF defs[k].guaranteedInStartHand /\ i >= 0
            THEN DealGuaranteed(defs, k + 1, Append(hand, deck[i + 1]), RemoveIdx(deck, i))
            ELSE DealGuaranteed(defs, k + 1, hand, deck)

\* n times hand.append(deck.pop())
RECURSIVE PopInto(_, _, _)
PopInto(n, hand, deck) ==
    IF n = 0 THEN <<hand, deck>>
    ELSE PopInto(n - 1, Append(hand, deck[Len(deck)]), SubSeq(deck, 1, Len(deck) - 1))

\* setup_game's deal: players i.. get their hands; returns <<players, deck>>
RECURSIVE DealHands(_, _, _, _, _)
DealHands(defs, handSize, players, i, deck) ==
    IF i > Len(players) THEN <<players, deck>>
    ELSE LET g == DealGuaranteed(defs, 1, <<>>, deck)
             remaining == Max(0, handSize - Len(g[1]))
             f == PopInto(Min(remaining, Len(g[2])), g[1], g[2])
             p == [players[i] EXCEPT !.hand = f[1], !.status = "active",
                                     !.isCurrentTurn = (i = 1)]
         IN DealHands(defs, handSize, [players EXCEPT ![i] = p], i + 1, f[2])

\* an injection of one copy per player
InjectPerPlayer(defn, nPlayers) ==
    IF defn.injectCount.mode = "players_minus_one" THEN nPlayers ELSE defn.injectCount.n

\* setup_game: the number of copies injected after the deal
InjectN(defn, nPlayers) ==
    IF defn.injectCount.mode = "players_minus_one" THEN nPlayers - 1 ELSE defn.injectCount.n

Injected(defn, nPlayers) ==
    [j \in 1..Max(0, InjectN(defn, nPlayers)) |->
        NewCard(defn, defn.id \o "_injected_" \o ToString(j - 1))]

RECURSIVE InjectFrom(_, _, _)
InjectFrom(defs, k, nPlayers) ==
    IF k > Len(defs) THEN <<>>
    ELSE Injected(defs[k], nPlayers) \o InjectFrom(defs, k + 1, nPlayers)

\* universal.setup_game from the start-discard step on: players are the dealt
\* players, deck1 the shuffled deck after the injection
SetupDiscard(s, g, players, deck1) ==
    LET Startable(c) == DefById(g, c.definitionId).subtype \notin g.config.excludeFromStartDiscard
        fi == IF g.config.startWithDiscard THEN FirstIdx(deck1, Startable) ELSE -1
        first == IF fi >= 0 THEN deck1[fi + 1] ELSE NoCard
        col == IF fi >= 0 /\ first.color # "" /\ first.color # "wild"
               THEN first.color ELSE s.metadata.activeColor
    IN [s EXCEPT !.players = players,
                 !.draw = IF fi >= 0 THEN RemoveIdx(deck1, fi) ELSE deck1,
                 !.discard = IF fi >= 0 THEN <<first>> ELSE <<>>,
                 !.hasZones = TRUE,
                 !.currentTurnPlayerId = s.players[1].id,
                 !.turnNumber = 1,
                 !.phase = "playing",
                 !.metadata.activeColor = col,
                 !.metadata.scores = [i \in 1..Len(s.players) |-> 0]]

\* universal.setup_game from the injection step on: dealt is <<players, deck>>
\* after the deal, k2 the outcome of the second random.shuffle
SetupInject(s, g, dealt, k2) ==
    SetupDiscard(s, g, dealt[1],
                 Rotate(dealt[2] \o InjectFrom(g.cards, 1, Len(s.players)), k2))

\* universal.setup_game for the game definition g
SetupDeal(s, g, k1, k2) ==
    SetupInject(s, g,
                DealHands(g.cards, g.rules.handSize, s.players, 1,
                          Rotate(build_deck_from_definitions(g.cards), k1)),
                k2)

\* universal.setup_game; k1 and k2 are the outcomes of its two random.shuffle calls
setup_game(s, k1, k2) == SetupDeal(s, Game(s.gameType), k1, k2)

\* ExplodingKittensPlugin.on_game_start
on_game_start(s) ==
    IF Game(s.gameType).plugin = "exploding_kittens"
    THEN [s EXCEPT !.metadata.attacks_pending = 0]
    ELSE s

\* a start_game that sets the game up whatever the phase
StartInAnyPhase(s, k1, k2, fault) ==
    IF Len(s.players) < Game(s.gameType).rules.minPlayers
    THEN [ok |-> FALSE, err |-> "Need at least minPlayers players", st |-> s]
    ELSE [ok |-> TRUE, err |-> "", st |-> on_game_start(setup_game(s, k1, k2))]

\* game_loader.start_game: returns [ok, err, st]; fault: plugin.on_game_start
\* raises (the exception is printed and the start goes on)
StartGame(s, k1, k2, fault) ==
    IF Len(s.players) < Game(s.gameType).rules.minPlayers
    THEN [ok |-> FALSE, err |-> "Need at least minPlayers players", st |-> s]
    ELSE IF s.phase # "lobby"
    THEN [ok |-> FALSE, err |-> "Game already started", st |-> s]
    ELSE IF fault /\ Game(s.gameType).plugin # ""
    THEN [ok |-> TRUE, err |-> "", st |-> setup_game(s, k1, k2)]
    ELSE [ok |-> TRUE, err |-> "", st |-> on_game_start(setup_game(s, k1, k2))]

\* game_loader.start_game with a hook that does not raise
start_game(s, k1, k2) == StartGame(s, k1, k2, FALSE)

\* the names a join request may carry
Names == {"Ann", "bob", "Bob", "cy", "dee"}

\* str.lower on the names in use
Lower(name) ==
    CASE name = "Ann" -> "ann"
      [] name = "Bob" -> "bob"
      [] OTHER -> name

\* an add_player_to_state that accepts a name whatever names are taken
AddPlayerAnyName(s, name) ==
    IF s.phase # "lobby"
    THEN [ok |-> FALSE, err |-> "Game already started", st |-> s]
    ELSE IF Len(s.players) >= Game(s.gameType).rules.maxPlayers
    THEN [ok |-> FALSE, err |-> "Room is full", st |-> s]
    ELSE [ok |-> TRUE, err |-> "",
          st |-> [s EXCEPT !.players =
                     Append(@, [NewPlayer(Len(s.players) + 1) EXCEPT !.name = name])]]

\* game_loader.add_player_to_state: returns [ok, err, st]
AddPlayer(s, name) ==
    IF s.phase # "lobby"
    THEN [ok |-> FALSE, err |-> "Game already started", st |-> s]
    ELSE IF Len(s.players) >= Game(s.gameType).rules.maxPlayers
    THEN [ok |-> FALSE, err |-> "Room is full", st |-> s]
    ELSE IF \E i \in 1..Len(s.players) : Lower(s.players[i].name) = Lower(name)
    THEN [ok |-> FALSE, err |-> "Name already taken in this room", st |-> s]
    ELSE [ok |-> TRUE, err |-> "",
          st |-> [s EXCEPT !.players =
                     Append(@, [NewPlayer(Len(s.players) + 1) EXCEPT !.name = name])]]

\* game_loader.add_player_to_state for the next player with a name of their own
add_player_to_state(s) == AddPlayer(s, NewPlayer(Len(s.players) + 1).name)

\* rooms.start_room: returns [ok, err, st]; only the host may start
start_room(s, pid, k1, k2, fault) ==
    IF s.metadata.hostId # pid
    THEN [ok |-> FALSE, err |-> "Only the host can start the game", st |-> s]
    ELSE StartGame(s, k1, k2, fault)

\* ------------------------------------------------------------- turn order

\* universal._direction
_direction(s) == s.metadata.direction

\* universal._peek_next: the id of the next player, 0 for None
_peek_next(s, skip) ==
    LET active == _active(s)
        ix == IndexOf(Ids(active), s.currentTurnPlayerId)
        idx == IF ix < 0 THEN 0 ELSE ix
    IN IF Len(active) = 0 THEN 0
       ELSE active[((idx + _direction(s) * (1 + skip)) % Len(active)) + 1].id

\* universal._advance_turn
_advance_turn(s, skip) ==
    LET nxt == _peek_next(s, skip)
    IN IF nxt = 0 THEN s
       ELSE [SetCurrent(s, nxt) EXCEPT !.turnNumber = @ + 1]

\* universal._reverse_direction
_reverse_direction(s) == [s EXCEPT !.metadata.direction = -_direction(s)]

\* a turn advance that counts a new turn for every draw, also for one that
\* leaves the player under attack
AdvanceCountingEveryDraw(s) ==
    LET attacks == s.metadata.attacks_pending
        active == _active(s)
        idx == IndexOf(Ids(active), s.currentTurnPlayerId)
        nxt == active[((idx + 1) % Len(active)) + 1].id
    IN IF attacks > 1
       THEN [s EXCEPT !.metadata.attacks_pending = attacks - 1, !.turnNumber = @ + 1]
       ELSE IF Len(active) = 0 THEN [s EXCEPT !.metadata.attacks_pending = 0]
       ELSE [SetCurrent(s, nxt) EXCEPT !.metadata.attacks_pending = 0,
                                       !.turnNumber = @ + 1]

\* ExplodingKittensPlugin._advance_turn_with_attacks
_advance_turn_with_attacks(s) ==
    LET attacks == s.metadata.attacks_pending
        s1 == IF attacks > 0 THEN [s EXCEPT !.metadata.attacks_pending = attacks - 1] ELSE s
        active == _active(s1)
        idx == IndexOf(Ids(active), s1.currentTurnPlayerId)
        nxt == active[((idx + 1) % Len(active)) + 1].id
    IN IF attacks > 0 /\ attacks - 1 > 0 THEN s1
       ELSE IF Len(active) = 0 THEN s1
       ELSE [SetCurrent(s1, nxt) EXCEPT !.turnNumber = @ + 1]

\* ------------------------------------------------- effect handler results

\* an effect handler's return value; isNone: it returned None
NoRes == [isNone |-> TRUE, halt_turn_advance |-> FALSE, skip |-> 0, extra_turn |-> FALSE,
          needs_color_choice |-> FALSE, draw_count |-> 0, is_wild_draw |-> FALSE,
          draw_n |-> 0, needs_target |-> FALSE, pending_type |-> "",
          challenge_window |-> FALSE]

Halt == [NoRes EXCEPT !.isNone = FALSE, !.halt_turn_advance = TRUE]

\* what a handler leaves: the state, the triggered list, its return value and
\* the exception it raised ("" for none)
Out(s, trig, res) == [st |-> s, trig |-> trig, res |-> res, exc |-> ""]

TargetOf(a) == a.targetPlayerId

\* ExplodingKittensPlugin._effect_skip
EK_effect_skip(s, pid, card, eff, a, trig) ==
    LET attacks == s.metadata.attacks_pending
        s1 == IF attacks > 0 THEN [s EXCEPT !.metadata.attacks_pending = attacks - 1] ELSE s
    IN Out(_advance_turn_with_attacks(s1), Append(trig, "skipped"), Halt)

\* an Attack that always leaves two forced turns, whatever the attacker owed
AttackWithoutStacking(s, pid, card, eff, a, trig) ==
    LET active == _active(s)
        idx == IndexOf(Ids(active), s.currentTurnPlayerId)
        nxt == active[((idx + 1) % Len(active)) + 1].id
        s1 == [SetCurrent(s, nxt) EXCEPT !.turnNumber = @ + 1,
                                         !.metadata.attacks_pending = 2]
    IN IF Len(active) = 0 THEN Out(s, trig, Halt)
       ELSE Out(s1, Append(trig, "attacked"), Halt)

\* ExplodingKittensPlugin._effect_attack
EK_effect_attack(s, pid, card, eff, a, trig) ==
    LET active == _active(s)
        idx == IndexOf(Ids(active), s.currentTurnPlayerId)
        nxt == active[((idx + 1) % Len(active)) + 1].id
        s1 == [SetCurrent(s, nxt) EXCEPT !.turnNumber = @ + 1,
                                         !.metadata.attacks_pending = @ + 2]
    IN IF Len(active) = 0 THEN Out(s, trig, Halt)
       ELSE Out(s1, Append(trig, "attacked"), Halt)

\* ExplodingKittensPlugin._effect_give
EK_effect_give(s, pid, card, eff, a, trig) ==
    LET ti == _get_player(s, TargetOf(a))
    IN IF ti = 0
       THEN Out(s, trig, [NoRes EXCEPT !.isNone = FALSE, !.needs_target = TRUE,
                                       !.pending_type = "give"])
       ELSE IF Len(s.players[ti].hand) = 0 THEN Out(s, trig, Halt)
       ELSE Out([s EXCEPT !.phase = "awaiting_response",
                          !.pendingAction = [NoPending EXCEPT !.type = "favor",
                                                !.playerId = pid,
                                                !.targetPlayerId = s.players[ti].id]],
                Append(trig, "give_pending"), Halt)

\* a Shuffle that ends the turn of the player who plays it
ShuffleEndingTurn(s, pid, card, eff, a, trig) ==
    Out(_advance_turn([s EXCEPT !.draw = Rotate(@, a.rnd.k)], 0),
        Append(trig, "shuffled"), Halt)

\* ExplodingKittensPlugin._effect_shuffle
EK_effect_shuffle(s, pid, card, eff, a, trig) ==
    Out([s EXCEPT !.draw = Rotate(@, a.rnd.k)], Append(trig, "shuffled"), Halt)

\* ExplodingKittensPlugin._effect_peek
EK_effect_peek(s, pid, card, eff, a, trig) ==
    IF Len(s.draw) > 0 THEN Out(s, Append(trig, "top"), Halt) ELSE Out(s, trig, Halt)

\* ExplodingKittensPlugin._effect_steal
EK_effect_steal(s, pid, card, eff, a, trig) ==
    LET ti == _get_player(s, TargetOf(a))
        th == s.players[ti].hand
        stolen == th[(a.rnd.pick % Len(th)) + 1]
        s1 == SetHand(s, s.players[ti].id, Remove(th, stolen))
        s2 == SetHand(s1, pid, Append(Hand(s1, pid), stolen))
    IN IF ti = 0 \/ Len(th) = 0 THEN Out(s, trig, Halt)
       ELSE Out(s2, Append(trig, "stolen"), Halt)

\* ------------------------------------------------- universal: draw helpers

\* universal._set_active_color
_set_active_color(s, card) ==
    IF card.color # "" /\ card.color # "wild"
    THEN [s EXCEPT !.metadata.activeColor = card.color] ELSE s

\* a recycling that takes the whole discard pile, its top card included
RecycleWholeDiscard(s, n, k) ==
    IF s.hasZones /\ Len(s.draw) < n /\ Len(s.discard) > 1
    THEN [s EXCEPT !.draw = @ \o Rotate(s.discard, k), !.discard = <<>>]
    ELSE s

\* universal._ensure_draw_cards; k is the outcome of random.shuffle
_ensure_draw_cards(s, n, k) ==
    IF s.hasZones /\ Len(s.draw) < n /\ Len(s.discard) > 1
    THEN [s EXCEPT !.draw = @ \o Rotate(Tail(s.discard), k),
                   !.discard = <<Head(s.discard)>>]
    ELSE s

\* universal._draw_n: the state after player pid drew up to n cards
_draw_n(s, pid, n, k) ==
    LET s1 == _ensure_draw_cards(s, n, k)
        m == Min(n, Len(s1.draw))
    IN IF ~s1.hasZones THEN s1
       ELSE [SetHand(s1, pid, Hand(s1, pid) \o SubSeq(s1.draw, 1, m))
                EXCEPT !.draw = SubSeq(s1.draw, m + 1, Len(s1.draw))]

\* card.metadata["color"] = chosen, seen through every reference to the
\* played card object (it lies on the discard pile)
RecolorPlayed(s, card, chosen) ==
    [s EXCEPT !.discard = [i \in 1..Len(s.discard) |->
        IF s.discard[i].id = card.id THEN [s.discard[i] EXCEPT !.color = chosen]
        ELSE s.discard[i]]]

InSeq(x, seq) == \E i \in 1..Len(seq) : seq[i] = x

\* ---------------------------------------------- universal: effect handlers

\* universal._effect_number
_effect_number(s, pid, card, eff, a, trig) == Out(_set_active_color(s, card), trig, NoRes)

\* universal._effect_skip
_effect_skip(s, pid, card, eff, a, trig) ==
    LET n0 == IF eff.value = 0 THEN 1 ELSE eff.value
        n == IF Len(_active(s)) = 2 /\ _cfg(s).reverseEqualsSkipTwoPlayers
                /\ Subtype(s, card) = "reverse" THEN 1 ELSE n0
    IN Out(_set_active_color(s, card), Append(trig, "skip"),
           [NoRes EXCEPT !.isNone = FALSE, !.skip = n])

\* a reverse without the two-player rule
ReverseWithoutTwoPlayerRule(s, pid, card, eff, a, trig) ==
    Out(_reverse_direction(_set_active_color(s, card)), Append(trig, "reversed"), NoRes)

\* universal._effect_reverse
_effect_reverse(s, pid, card, eff, a, trig) ==
    LET s1 == _set_active_color(s, card)
    IN IF Len(_active(s)) = 2 /\ _cfg(s).reverseEqualsSkipTwoPlayers
       THEN Out(s1, Append(trig, "reverse_as_skip"), [NoRes EXCEPT !.isNone = FALSE, !.skip = 1])
       ELSE Out(_reverse_direction(s1), Append(trig, "reversed"), NoRes)

\* the forced draws of _effect_draw's loop over its targets
RECURSIVE DrawEach(_, _, _, _)
DrawEach(s, targets, n, k) ==
    IF Len(targets) = 0 THEN s
    ELSE DrawEach(IF Head(targets) = 0 THEN s ELSE _draw_n(s, Head(targets), n, k),
                  Tail(targets), n, k)

\* universal._effect_draw
_effect_draw(s, pid, card, eff, a, trig) ==
    LET n == IF eff.value = 0 THEN 1 ELSE eff.value
        s1 == _set_active_color(s, card)
        others == SelectSeq(Ids(_active(s1)), LAMBDA q : q # s1.currentTurnPlayerId)
        chosen == IF TargetOf(a) # 0
                  THEN (IF _get_player(s1, TargetOf(a)) = 0 THEN <<0>> ELSE <<TargetOf(a)>>)
                  ELSE <<_peek_next(s1, 0)>>
        targets == CASE eff.target = "all_others" -> others
                     [] eff.target = "choose" -> chosen
                     [] OTHER -> <<_peek_next(s1, 0)>>
    IN IF _cfg(s).stackableDraw
       THEN Out([s1 EXCEPT !.metadata.pendingDraw = @ + n], Append(trig, "draw_stack"), NoRes)
       ELSE Out(DrawEach(s1, targets, n, a.rnd.k), Append(trig, "forced_draw"),
                IF eff.target = "next_player"
                THEN [NoRes EXCEPT !.isNone = FALSE, !.skip = 1] ELSE NoRes)

\* universal._effect_self_draw
_effect_self_draw(s, pid, card, eff, a, trig) ==
    Out(_draw_n(s, pid, IF eff.value = 0 THEN 1 ELSE eff.value, a.rnd.k),
        Append(trig, "self_draw"), NoRes)

\* universal._effect_wild
_effect_wild(s, pid, card, eff, a, trig) ==
    IF Len(_cfg(s).colors) = 0
    THEN [Out(s, trig, NoRes) EXCEPT !.exc = "Game config must define 'colors' array"]
    ELSE IF InSeq(a.color, _cfg(s).colors)
    THEN Out(RecolorPlayed([s EXCEPT !.metadata.activeColor = a.color], card, a.color),
             Append(trig, "color_chosen"), NoRes)
    ELSE Out(s, trig, [NoRes EXCEPT !.isNone = FALSE, !.needs_color_choice = TRUE])

\* universal._effect_wild_draw
_effect_wild_draw(s, pid, card, eff, a, trig) ==
    LET n == IF eff.value = 0 THEN 4 ELSE eff.value
        total == s.metadata.pendingDraw + n
        s1 == [s EXCEPT !.metadata.pendingDraw = total]
        s2 == RecolorPlayed([s1 EXCEPT !.metadata.activeColor = a.color], card, a.color)
    IN IF Len(_cfg(s).colors) = 0
       THEN [Out(s, trig, NoRes) EXCEPT !.exc = "Game config must define 'colors' array"]
       ELSE IF InSeq(a.color, _cfg(s).colors)
       THEN Out(s2, Append(trig, "wild_draw"),
                IF _cfg(s).allowWildDraw4Challenge /\ Len(_active(s2)) > 2
                THEN [NoRes EXCEPT !.isNone = FALSE, !.skip = 1, !.challenge_window = TRUE,
                                   !.draw_count = total]
                ELSE NoRes)
       ELSE Out(s1, trig, [NoRes EXCEPT !.isNone = FALSE, !.needs_color_choice = TRUE,
                              !.draw_count = total, !.is_wild_draw = TRUE, !.draw_n = n])

\* the game-over check at the end of universal._effect_eliminate: if exactly
\* one player remains, that player wins and the game ends
LastStanding(s) ==
    LET remaining == _active(s)
        w == remaining[1].id
    IN IF Len(remaining) = 1
       THEN [s EXCEPT !.players[_get_player(s, w)].status = "winner",
                      !.winner = w, !.phase = "ended"]
       ELSE s

\* universal._effect_eliminate.  effect.get("conditions") reads a key that
\* CardEffect.dict() never has, so no condition is checked here.
_effect_eliminate(s, pid, card, eff, a, trig) ==
    LET target == IF eff.target = "self" THEN pid
                  ELSE IF TargetOf(a) # 0 THEN TargetOf(a) ELSE pid
        ti == _get_player(s, target)
        s1 == [s EXCEPT !.players[ti].status = "eliminated",
                        !.discard = <<card>> \o @]
        s2 == LastStanding(s1)
    IN IF ti = 0
       THEN [Out(s, trig, NoRes) EXCEPT !.exc = "'NoneType' object has no attribute 'status'"]
       ELSE Out(s2, IF s2.phase = "ended" /\ Len(_active(s1)) = 1
                    THEN trig \o <<"eliminated", "game_over">>
                    ELSE Append(trig, "eliminated"), NoRes)

\* universal._effect_defuse.  effect.get("consumes") is never set: the
\* consumed subtype is "defuse".
_effect_defuse(s, pid, card, eff, a, trig) ==
    LET h == Hand(s, pid)
        IsDefuse(c) == Subtype(s, c) = "defuse"
        i == FirstIdx(h, IsDefuse)
        s1 == [SetHand(s, pid, RemoveIdx(h, i)) EXCEPT
                  !.discard = <<h[i + 1]>> \o @,
                  !.phase = "awaiting_response",
                  !.pendingAction = [NoPending EXCEPT !.type = "insert_card",
                                        !.playerId = pid, !.card = card,
                                        !.deckSize = Len(s.draw)]]
    IN IF i < 0
       THEN Out(s, Append(trig, "defuse_failed:no_defuse_card"), [NoRes EXCEPT !.isNone = FALSE])
       ELSE Out(s1, trig \o <<"defused", "insert_pending">>, Halt)

\* universal._effect_peek
_effect_peek(s, pid, card, eff, a, trig) == Out(s, Append(trig, "top"), NoRes)

\* universal._effect_shuffle
_effect_shuffle(s, pid, card, eff, a, trig) ==
    Out([s EXCEPT !.draw = Rotate(@, a.rnd.k)], Append(trig, "shuffled"), NoRes)

\* universal._effect_steal (cardChoice is never set: a random card)
_effect_steal(s, pid, card, eff, a, trig) ==
    LET ti == _get_player(s, TargetOf(a))
        th == s.players[ti].hand
        stolen == th[(a.rnd.pick % Len(th)) + 1]
        s1 == SetHand(s, s.players[ti].id, Remove(th, stolen))
        s2 == SetHand(s1, pid, Append(Hand(s1, pid), stolen))
    IN IF ti = 0 \/ Len(th) = 0 THEN Out(s, trig, NoRes)
       ELSE Out(s2, Append(trig, "stolen"), NoRes)

\* universal._effect_give
_effect_give(s, pid, card, eff, a, trig) ==
    LET ti == _get_player(s, TargetOf(a))
    IN IF ti = 0
       THEN Out(s, trig, [NoRes EXCEPT !.isNone = FALSE, !.needs_target = TRUE,
                                       !.pending_type = "give"])
       ELSE IF Len(s.players[ti].hand) = 0 THEN Out(s, trig, NoRes)
       ELSE Out([s EXCEPT !.phase = "awaiting_response",
                          !.pendingAction = [NoPending EXCEPT !.type = "give_card",
                                                !.playerId = pid,
                                                !.targetPlayerId = s.players[ti].id]],
                Append(trig, "give_pending"), Halt)

\* universal._effect_insert
_effect_insert(s, pid, card, eff, a, trig) == Out(s, trig, NoRes)

\* universal._effect_extra_turn
_effect_extra_turn(s, pid, card, eff, a, trig) ==
    Out([s EXCEPT !.metadata.extraTurn = pid], Append(trig, "extra_turn"),
        [NoRes EXCEPT !.isNone = FALSE, !.extra_turn = TRUE])

\* universal._effect_swap_hands
_effect_swap_hands(s, pid, card, eff, a, trig) ==
    LET ti == _get_player(s, TargetOf(a))
        mine == Hand(s, pid)
        theirs == s.players[ti].hand
    IN IF ti = 0
       THEN Out(s, trig, [NoRes EXCEPT !.isNone = FALSE, !.needs_target = TRUE,
                                       !.pending_type = "swap_hands"])
       ELSE Out(SetHand(SetHand(s, pid, theirs), s.players[ti].id, mine),
                Append(trig, "swapped_hands"), NoRes)

\* universal._effect_score
_effect_score(s, pid, card, eff, a, trig) ==
    LET target == IF eff.target = "next_player" THEN _peek_next(s, 0) ELSE pid
    IN Out(IF target = 0 THEN s
           ELSE [s EXCEPT !.metadata.scores[_get_player(s, target)] = @ + eff.value],
           Append(trig, "score"), NoRes)

\* universal._effect_any
_effect_any(s, pid, card, eff, a, trig) == Out(s, trig, NoRes)

\* universal.EFFECT_HANDLERS
EffectTypes == {"number", "skip", "reverse", "draw", "self_draw", "wild", "wild_draw",
                "eliminate", "defuse", "peek", "shuffle", "steal", "give", "insert",
                "extra_turn", "swap_hands", "score", "any", "combo_steal", "cancel"}

EFFECT_HANDLERS(etype, s, pid, card, eff, a, trig) ==
    CASE etype = "number"      -> _effect_number(s, pid, card, eff, a, trig)
      [] etype = "skip"        -> _effect_skip(s, pid, card, eff, a, trig)
      [] etype = "reverse"     -> _effect_reverse(s, pid, card, eff, a, trig)
      [] etype = "draw"        -> _effect_draw(s, pid, card, eff, a, trig)
      [] etype = "self_draw"   -> _effect_self_draw(s, pid, card, eff, a, trig)
      [] etype = "wild"        -> _effect_wild(s, pid, card, eff, a, trig)
      [] etype = "wild_draw"   -> _effect_wild_draw(s, pid, card, eff, a, trig)
      [] etype = "eliminate"   -> _effect_eliminate(s, pid, card, eff, a, trig)
      [] etype = "defuse"      -> _effect_defuse(s, pid, card, eff, a, trig)
      [] etype = "peek"        -> _effect_peek(s, pid, card, eff, a, trig)
      [] etype = "shuffle"     -> _effect_shuffle(s, pid, card, eff, a, trig)
      [] etype = "steal"       -> _effect_steal(s, pid, card, eff, a, trig)
      [] etype = "give"        -> _effect_give(s, pid, card, eff, a, trig)
      [] etype = "insert"      -> _effect_insert(s, pid, card, eff, a, trig)
      [] etype = "extra_turn"  -> _effect_extra_turn(s, pid, card, eff, a, trig)
      [] etype = "swap_hands"  -> _effect_swap_hands(s, pid, card, eff, a, trig)
      [] etype = "score"       -> _effect_score(s, pid, card, eff, a, trig)
      [] etype = "any"         -> _effect_any(s, pid, card, eff, a, trig)
      [] etype = "combo_steal" -> _effect_steal(s, pid, card, eff, a, trig)
      [] etype = "cancel"      -> _effect_any(s, pid, card, eff, a, trig)

\* ExplodingKittensPlugin.get_custom_effects
EKEffectTypes == {"attack", "skip", "give", "shuffle", "peek", "steal"}

EK_custom_effects(etype, s, pid, card, eff, a, trig) ==
    CASE etype = "attack"  -> EK_effect_attack(s, pid, card, eff, a, trig)
      [] etype = "skip"    -> EK_effect_skip(s, pid, card, eff, a, trig)
      [] etype = "give"    -> EK_effect_give(s, pid, card, eff, a, trig)
      [] etype = "shuffle" -> EK_effect_shuffle(s, pid, card, eff, a, trig)
      [] etype = "peek"    -> EK_effect_peek(s, pid, card, eff, a, trig)
      [] etype = "steal"   -> EK_effect_steal(s, pid, card, eff, a, trig)

\* ---------------------------------------------- Exploding Kittens actions

\* what an action handler returns, Tuple[bool, str, List[str]], with the
\* GameState it leaves behind (handlers mutate the state in place)
Ret(ok, err, trig, st) == [ok |-> ok, err |-> err, trig |-> trig, st |-> st]

HasId(cards, cid) == \E i \in 1..Len(cards) : cards[i].id = cid
ById(cards, cid) == cards[CHOOSE i \in 1..Len(cards) : cards[i].id = cid]

\* ExplodingKittensPlugin._handle_play_card
_handle_play_card(s, a) ==
    LET pi == _get_player(s, a.playerId)
        hand == s.players[pi].hand
        card == ById(hand, a.cardId)
        hasPair == a.comboPairId # ""
        pairOk == HasId(hand, a.comboPairId) /\ a.comboPairId # card.id
        pair == ById(hand, a.comboPairId)
        hand1 == Remove(hand, card)
        s1 == [s EXCEPT !.players[pi].hand = hand1, !.discard = <<card>> \o @]
        s2 == IF hasPair
              THEN [s1 EXCEPT !.players[pi].hand = Remove(hand1, pair),
                              !.discard = <<pair>> \o @]
              ELSE s1
        s3 == [s2 EXCEPT !.phase = "awaiting_response",
                         !.pendingAction =
                            [NoPending EXCEPT !.type = "nope_window",
                                !.playerId = a.playerId, !.cardId = card.id,
                                !.card = card, !.effects = Effects(s, card),
                                !.originalAction = [playerId |-> a.playerId,
                                                    cardId |-> a.cardId,
                                                    targetPlayerId |-> a.targetPlayerId,
                                                    comboPairId |-> a.comboPairId],
                                !.nopeCount = 0]]
    IN IF pi = 0 THEN Ret(FALSE, "Player not found", <<>>, s)
       ELSE IF s.currentTurnPlayerId # a.playerId THEN Ret(FALSE, "Not your turn", <<>>, s)
       ELSE IF s.phase # "playing" THEN Ret(FALSE, "Cannot play a card right now", <<>>, s)
       ELSE IF ~HasId(hand, a.cardId) THEN Ret(FALSE, "Card not in hand", <<>>, s)
       ELSE IF hasPair /\ ~pairOk THEN Ret(FALSE, "Combo pair card not in hand", <<>>, s)
       ELSE IF hasPair /\ Subtype(s, pair) # Subtype(s, card)
            THEN Ret(FALSE, "Combo pair cards must match", <<>>, s)
       ELSE Ret(TRUE, "", <<"nope_window">>, s3)

\* the handler chosen for an effect type in _handle_resolve_nope_window:
\* plugin custom effects first, then universal EFFECT_HANDLERS
EKRunEffect(etype, s, pid, card, eff, a, trig) ==
    IF etype \in EKEffectTypes THEN EK_custom_effects(etype, s, pid, card, eff, a, trig)
    ELSE EFFECT_HANDLERS(etype, s, pid, card, eff, a, trig)

\* _ActionProxy built from pending["originalAction"]
_ActionProxy(orig, a) ==
    [a EXCEPT !.playerId = orig.playerId, !.cardId = orig.cardId,
              !.targetPlayerId = orig.targetPlayerId, !.comboPairId = orig.comboPairId]

\* the effect loop of _handle_resolve_nope_window from effect i on
RECURSIVE EKEffectLoop(_, _, _, _, _, _, _)

\* the loop body of _handle_resolve_nope_window after the handler of effect i
\* returned out
EKEffectDone(pid, card, effects, i, a, out) ==
    IF out.exc # "" THEN EKEffectLoop(out.st, pid, card, effects, i + 1, a, out.trig)
    ELSE IF out.res.needs_target
         THEN Ret(TRUE, "", out.trig,
                  [out.st EXCEPT !.phase = "awaiting_response",
                      !.pendingAction = [NoPending EXCEPT
                          !.type = out.res.pending_type,
                          !.playerId = pid, !.cardId = card.id]])
    ELSE EKEffectLoop(out.st, pid, card, effects, i + 1, a, out.trig)

EKEffectLoop(s, pid, card, effects, i, a, trig) ==
    IF i > Len(effects) THEN Ret(TRUE, "", trig, s)
    ELSE IF effects[i].type \notin EKEffectTypes \cup EffectTypes
         THEN EKEffectLoop(s, pid, card, effects, i + 1, a, trig)
    ELSE EKEffectDone(pid, card, effects, i, a,
                      EKRunEffect(effects[i].type, s, pid, card, effects[i], a, trig))

\* a resolution that applies the played card's effects whatever the number of
\* Nopes
ResolveIgnoringNopes(s, a) ==
    LET pending == s.pendingAction
        s1 == [s EXCEPT !.pendingAction = NoPending, !.phase = "playing"]
    IN IF pending.type # "nope_window" THEN Ret(FALSE, "No nope window to resolve", <<>>, s)
       ELSE EKEffectLoop(s1, pending.playerId, pending.card, pending.effects, 1,
                         _ActionProxy(pending.originalAction, a), <<"played">>)

\* ExplodingKittensPlugin._handle_resolve_nope_window
_handle_resolve_nope_window(s, a) ==
    LET pending == s.pendingAction
        s1 == [s EXCEPT !.pendingAction = NoPending, !.phase = "playing"]
    IN IF pending.type # "nope_window" THEN Ret(FALSE, "No nope window to resolve", <<>>, s)
       ELSE IF pending.nopeCount % 2 = 1 THEN Ret(TRUE, "", <<"noped", "nope_resolved">>, s1)
       ELSE IF _get_player(s1, pending.playerId) = 0 THEN Ret(FALSE, "Player not found", <<>>, s1)
       ELSE EKEffectLoop(s1, pending.playerId, pending.card, pending.effects, 1,
                         _ActionProxy(pending.originalAction, a), <<"played">>)

\* a draw_card that eliminates the player who explodes and passes the turn
\* without looking for a winner
DrawWithoutWinnerCheck(s, a) ==
    LET pi == _get_player(s, a.playerId)
        hand == s.players[pi].hand
        drawn == s.draw[1]
        s0 == [s EXCEPT !.draw = Tail(@)]
        IsDefuse(c) == Subtype(s, c) = "defuse"
        di == FirstIdx(hand, IsDefuse)
        defused == [s0 EXCEPT !.players[pi].hand = RemoveIdx(hand, di),
                              !.discard = <<hand[di + 1]>> \o @,
                              !.phase = "awaiting_response",
                              !.pendingAction = [NoPending EXCEPT !.type = "insert_exploding",
                                                    !.playerId = a.playerId, !.card = drawn,
                                                    !.deckSize = Len(s0.draw)]]
        boom == [s0 EXCEPT !.players[pi].status = "eliminated",
                           !.discard = <<drawn>> \o @]
        normal == [s0 EXCEPT !.players[pi].hand = Append(hand, drawn)]
    IN IF pi = 0 THEN Ret(FALSE, "Player not found", <<>>, s)
       ELSE IF s.currentTurnPlayerId # a.playerId THEN Ret(FALSE, "Not your turn", <<>>, s)
       ELSE IF Len(s.draw) = 0 THEN Ret(FALSE, "Draw pile is empty", <<>>, s)
       ELSE IF Subtype(s, drawn) = "exploding"
            THEN IF di >= 0 THEN Ret(TRUE, "", <<"defused">>, defused)
                 ELSE Ret(TRUE, "", <<"exploded">>, _advance_turn_with_attacks(boom))
       ELSE Ret(TRUE, "", <<>>, _advance_turn_with_attacks(normal))

\* ExplodingKittensPlugin._handle_draw_card
_handle_draw_card(s, a) ==
    LET pi == _get_player(s, a.playerId)
        hand == s.players[pi].hand
        drawn == s.draw[1]
        s0 == [s EXCEPT !.draw = Tail(@)]
        IsDefuse(c) == Subtype(s, c) = "defuse"
        di == FirstIdx(hand, IsDefuse)
        defused == [s0 EXCEPT !.players[pi].hand = RemoveIdx(hand, di),
                              !.discard = <<hand[di + 1]>> \o @,
                              !.phase = "awaiting_response",
                              !.pendingAction = [NoPending EXCEPT !.type = "insert_exploding",
                                                    !.playerId = a.playerId, !.card = drawn,
                                                    !.deckSize = Len(s0.draw)]]
        boom == [s0 EXCEPT !.players[pi].status = "eliminated",
                           !.discard = <<drawn>> \o @]
        active == _active(boom)
        w == active[1].id
        won == [boom EXCEPT !.players[_get_player(boom, w)].status = "winner",
                            !.winner = w, !.phase = "ended"]
        normal == [s0 EXCEPT !.players[pi].hand = Append(hand, drawn)]
    IN IF pi = 0 THEN Ret(FALSE, "Player not found", <<>>, s)
       ELSE IF s.currentTurnPlayerId # a.playerId THEN Ret(FALSE, "Not your turn", <<>>, s)
       ELSE IF Len(s.draw) = 0 THEN Ret(FALSE, "Draw pile is empty", <<>>, s)
       ELSE IF Subtype(s, drawn) = "exploding"
            THEN IF di >= 0 THEN Ret(TRUE, "", <<"defused">>, defused)
                 ELSE IF Len(active) = 1 THEN Ret(TRUE, "", <<"exploded">>, won)
                 ELSE Ret(TRUE, "", <<"exploded">>, _advance_turn_with_attacks(boom))
       ELSE Ret(TRUE, "", <<>>, _advance_turn_with_attacks(normal))

\* metadata.get("position", random.randint(0, n)) clamped to 0..n;
\* position -1 stands for an absent key
InsertPos(a, n) ==
    LET pos == IF a.position < 0 THEN a.rnd.pick % (n + 1) ELSE a.position
    IN Max(0, Min(pos, n))

\* ExplodingKittensPlugin._handle_insert_exploding
_handle_insert_exploding(s, a) ==
    LET pending == s.pendingAction
        s1 == [s EXCEPT !.draw = InsertAt(@, InsertPos(a, Len(s.draw)), pending.card),
                        !.pendingAction = NoPending, !.phase = "playing"]
    IN IF s.phase # "awaiting_response" THEN Ret(FALSE, "No pending insert action", <<>>, s)
       ELSE IF pending.type # "insert_exploding" THEN Ret(FALSE, "No pending insert action", <<>>, s)
       ELSE IF a.playerId # pending.playerId THEN Ret(FALSE, "Not your action", <<>>, s)
       ELSE Ret(TRUE, "", <<"bomb_inserted">>, _advance_turn_with_attacks(s1))

\* ExplodingKittensPlugin._handle_give_card
_handle_give_card(s, a) ==
    LET pending == s.pendingAction
        gi == _get_player(s, pending.targetPlayerId)
        ri == _get_player(s, pending.playerId)
        ghand == s.players[gi].hand
        card == IF a.cardId # "" /\ HasId(ghand, a.cardId) THEN ById(ghand, a.cardId)
                ELSE ghand[(a.rnd.pick % Len(ghand)) + 1]
        s1 == [s EXCEPT !.players[gi].hand = Remove(ghand, card)]
        s2 == [s1 EXCEPT !.players[ri].hand = Append(@, card),
                         !.pendingAction = NoPending, !.phase = "playing"]
    IN IF pending.type # "favor" THEN Ret(FALSE, "No favor pending", <<>>, s)
       ELSE IF a.playerId # pending.targetPlayerId THEN Ret(FALSE, "Not your action", <<>>, s)
       ELSE IF gi = 0 \/ ri = 0 THEN Ret(FALSE, "Player not found", <<>>, s)
       ELSE IF ~(a.cardId # "" /\ HasId(ghand, a.cardId)) /\ Len(ghand) = 0
            THEN Ret(FALSE, "No cards to give", <<>>, s)
       ELSE Ret(TRUE, "", <<"give_resolved">>, s2)

\* ExplodingKittensPlugin._handle_nope
_handle_nope(s, a) ==
    LET pi == _get_player(s, a.playerId)
        hand == s.players[pi].hand
        IsNope(c) == Subtype(s, c) = "nope" /\ (a.cardId = "" \/ c.id = a.cardId)
        ni == FirstIdx(hand, IsNope)
        pending == s.pendingAction
        n == pending.nopeCount + 1
        s1 == [s EXCEPT !.players[pi].hand = RemoveIdx(hand, ni),
                        !.discard = <<hand[ni + 1]>> \o @,
                        !.pendingAction.nopeCount = n]
    IN IF pi = 0 THEN Ret(FALSE, "Player not found", <<>>, s)
       ELSE IF ni < 0 THEN Ret(FALSE, "No Nope card in hand", <<>>, s)
       ELSE IF pending.type = "none" THEN Ret(FALSE, "Nothing to Nope", <<>>, s)
       ELSE IF pending.type = "insert_exploding" THEN Ret(FALSE, "Cannot Nope this action", <<>>, s)
       ELSE Ret(TRUE, "", IF n % 2 = 1 THEN <<"noped">> ELSE <<"nope_noped">>, s1)

\* ExplodingKittensPlugin.get_custom_actions
EKActionTypes == {"play_card", "draw_card", "insert_exploding", "give_card", "nope",
                  "resolve_nope_window"}

EK_custom_actions(s, a) ==
    CASE a.type = "play_card"           -> _handle_play_card(s, a)
      [] a.type = "draw_card"           -> _handle_draw_card(s, a)
      [] a.type = "insert_exploding"    -> _handle_insert_exploding(s, a)
      [] a.type = "give_card"           -> _handle_give_card(s, a)
      [] a.type = "nope"                -> _handle_nope(s, a)
      [] a.type = "resolve_nope_window" -> _handle_resolve_nope_window(s, a)

\* ------------------------------------------- universal: legality and win

\* universal._card_number; -1 stands for None
_card_number(s, c) == IF c.definitionId = "" THEN -1 ELSE CardDefOf(s, c).number

DrawEffects(s, c) == SelectSeq(Effects(s, c), LAMBDA e : e.type \in {"draw", "wild_draw"})

\* universal._can_play_card
_can_play_card(card, s) ==
    LET cfg == _cfg(s)
        cardDraw == DrawEffects(s, card)
        topDraw == DrawEffects(s, s.discard[1])
        activeSub == IF Len(s.discard) > 0 THEN Subtype(s, s.discard[1]) ELSE ""
        activeNum == IF Len(s.discard) > 0 THEN _card_number(s, s.discard[1]) ELSE -1
    IN IF cfg.wildAlwaysPlayable
          /\ (card.color = "wild" \/ Subtype(s, card) \in {"wild", "wild_draw4", "wild_draw"})
       THEN TRUE
       ELSE IF s.metadata.pendingDraw > 0 /\ cfg.stackableDraw
       THEN IF Len(cardDraw) = 0 THEN FALSE
            ELSE IF Len(s.discard) > 0 /\ Len(topDraw) > 0
                 THEN topDraw[1].value = cardDraw[1].value
                 ELSE TRUE
       ELSE IF cfg.matchColor /\ card.color # "" /\ s.metadata.activeColor # ""
               /\ card.color = s.metadata.activeColor THEN TRUE
       ELSE IF cfg.matchNumber /\ _card_number(s, card) # -1
               /\ _card_number(s, card) = activeNum THEN TRUE
       ELSE IF cfg.matchType /\ Subtype(s, card) = activeSub /\ activeSub # "number" THEN TRUE
       ELSE ~(cfg.matchColor \/ cfg.matchNumber \/ cfg.matchType)

\* universal._check_conditions: [met, reason]; a condition is
\* [type, value] with value a subtype or a number according to type
RECURSIVE _check_conditions(_, _, _)
_check_conditions(conds, s, pid) ==
    IF Len(conds) = 0 THEN [met |-> TRUE, reason |-> ""]
    ELSE LET c == Head(conds)
             hand == Hand(s, pid)
             fails ==
                CASE c.type = "has_card_type" ->
                        ~\E i \in 1..Len(hand) : Subtype(s, hand[i]) = c.value
                  [] c.type = "deck_size_gte" -> Len(s.draw) < c.value
                  [] c.type = "hand_size_lte" -> Len(hand) > c.value
                  [] c.type = "active_color" -> s.metadata.activeColor # c.value
                  [] c.type = "turn_number_gte" -> s.turnNumber < c.value
                  [] c.type = "player_count_eq" -> Len(_active(s)) # c.value
                  [] c.type = "player_count_lte" -> Len(_active(s)) > c.value
                  [] OTHER -> FALSE
         IN IF fails THEN [met |-> FALSE, reason |-> c.type]
            ELSE _check_conditions(Tail(conds), s, pid)

\* state.winner = w, w.status = "winner", phase = "ended"
Wins(s, w) ==
    [s EXCEPT !.players[_get_player(s, w)].status = "winner", !.winner = w, !.phase = "ended"]

\* universal._check_win: [won, st]
_check_win(s, pid) ==
    LET wc == Game(s.gameType).rules.winCondition
        active == _active(s)
        scores == s.metadata.scores
        best == CHOOSE i \in 1..Len(scores) :
                    /\ \A j \in 1..Len(scores) : scores[j] <= scores[i]
                    /\ \A j \in 1..(i - 1) : scores[j] < scores[i]
        Reached(i) == scores[i] >= Game(s.gameType).rules.targetScore
        first == CHOOSE i \in 1..Len(scores) : Reached(i) /\ \A j \in 1..(i - 1) : ~Reached(j)
    IN CASE wc = "empty_hand" /\ Len(Hand(s, pid)) = 0 -> [won |-> TRUE, st |-> Wins(s, pid)]
         [] wc = "last_standing" /\ Len(active) = 1 -> [won |-> TRUE, st |-> Wins(s, active[1].id)]
         [] wc = "most_points" /\ Len(s.draw) = 0 /\ Len(scores) > 0 ->
                [won |-> TRUE, st |-> Wins(s, s.players[best].id)]
         [] wc = "target_score" /\ (\E i \in 1..Len(scores) : Reached(i)) ->
                [won |-> TRUE, st |-> Wins(s, s.players[first].id)]
         [] OTHER -> [won |-> FALSE, st |-> s]

\* ------------------------------------------------------ universal actions

\* UnoButWith1000Plugin.on_card_played: the state it leaves (it returns None)
Uno1000_on_card_played(s, pid, card) ==
    LET hand == Hand(s, pid)
        s1 == IF Len(hand) = 1 THEN [s EXCEPT !.metadata.hasUnoCalledBy = TRUE] ELSE s
        hasMatch == \E i \in 1..Len(hand) :
                        hand[i].id # card.id /\ hand[i].color = s.metadata.activeColor
    IN IF Subtype(s, card) \in {"wild_draw_four", "wild_draw_1000"} /\ s.metadata.activeColor # ""
       THEN [s1 EXCEPT !.metadata.lastWildDrawWasIllegal = hasMatch]
       ELSE s1

\* UnoPlugin.on_card_played
Uno_on_card_played(s, pid, card) ==
    LET hand == Hand(s, pid)
        s1 == IF Len(hand) = 1 THEN [s EXCEPT !.metadata.hasUnoCalledBy = TRUE] ELSE s
        hasMatch == \E i \in 1..Len(hand) :
                        hand[i].id # card.id /\ hand[i].color = s.metadata.activeColor
    IN IF Subtype(s, card) = "wild_draw4" /\ s.metadata.activeColor # ""
       THEN [s1 EXCEPT !.metadata.lastWildDraw4WasIllegal = hasMatch]
       ELSE s1

\* an on_card_played hook that uses the validation result of its contract,
\* {"valid": bool, "error": str}: the plugin of a house rule that forbids
\* playing blue cards
House_on_card_played(s, pid, card) ==
    IF card.color = "blue"
    THEN [valid |-> FALSE, err |-> "House rule: no blue cards", halt |-> FALSE, st |-> s]
    ELSE [valid |-> TRUE, err |-> "", halt |-> FALSE, st |-> s]

\* plugin.on_card_played for the plugin of the state's game, if any:
\* [valid, err, halt, st]; err "" stands for a result without the key error
on_card_played(s, pid, card) ==
    IF Game(s.gameType).plugin = "exploding_kittens"
    THEN [valid |-> TRUE, err |-> "", halt |-> TRUE, st |-> s]
    ELSE IF Game(s.gameType).plugin = "uno_plus_1000"
    THEN [valid |-> TRUE, err |-> "", halt |-> FALSE, st |-> Uno1000_on_card_played(s, pid, card)]
    ELSE IF Game(s.gameType).plugin = "uno"
    THEN [valid |-> TRUE, err |-> "", halt |-> FALSE, st |-> Uno_on_card_played(s, pid, card)]
    ELSE IF Game(s.gameType).plugin = "house_rules"
    THEN House_on_card_played(s, pid, card)
    ELSE [valid |-> TRUE, err |-> "", halt |-> FALSE, st |-> s]

\* a hook call whose exception ends the play as an invalid one
HookAborting(s, a, card) ==
    IF a.fault /\ Game(s.gameType).plugin # ""
    THEN [valid |-> FALSE, err |-> "", halt |-> FALSE, st |-> s]
    ELSE on_card_played(s, a.playerId, card)

\* a hook call that takes the play as valid whatever the hook returns
HookIgnoringVeto(s, a, card) ==
    [on_card_played(s, a.playerId, card) EXCEPT !.valid = TRUE]

\* _action_play_card's call of the hook inside try / except: an exception is
\* printed and the play goes on with hook_halt = False
CallHook(s, a, card) ==
    IF a.fault /\ Game(s.gameType).plugin # ""
    THEN [valid |-> TRUE, err |-> "", halt |-> FALSE, st |-> s]
    ELSE on_card_played(s, a.playerId, card)

\* plugin_loader.validate_card_play: [valid, err]; no plugin, or a plugin that
\* keeps GamePluginBase.validate_card_play, accepts every play
validate_card_play(s, pid, card) ==
    IF Game(s.gameType).plugin = "uno_plus_1000"
       /\ _cfg(s).matchColor /\ s.metadata.pendingDraw > 0
       /\ Len(DrawEffects(s, card)) = 0 /\ card.color # "wild"
    THEN [valid |-> FALSE, err |-> "Must play a draw card to stack or draw"]
    ELSE IF Game(s.gameType).plugin = "uno"
       /\ _cfg(s).matchColor /\ s.metadata.pendingDraw > 0 /\ _cfg(s).stackableDraw
       /\ Len(DrawEffects(s, card)) = 0 /\ card.color # "wild"
    THEN [valid |-> FALSE, err |-> "Must play a draw card to stack or draw cards"]
    ELSE [valid |-> TRUE, err |-> ""]

\* handler lookup of _action_play_card: plugin custom effects, then
\* EFFECT_HANDLERS
RunEffect(etype, s, pid, card, eff, a, trig) ==
    IF Game(s.gameType).plugin = "exploding_kittens" /\ etype \in EKEffectTypes
    THEN EK_custom_effects(etype, s, pid, card, eff, a, trig)
    ELSE EFFECT_HANDLERS(etype, s, pid, card, eff, a, trig)

KnownEffect(s, etype) ==
    \/ etype \in EffectTypes
    \/ Game(s.gameType).plugin = "exploding_kittens" /\ etype \in EKEffectTypes

\* what _action_play_card does with a handler's result: acc is
\* [st, halt, skip_extra, extra_turn]
AfterResult(acc, pid, card, res) ==
    LET a1 == [acc EXCEPT !.halt = @ \/ res.halt_turn_advance,
                          !.skip_extra = IF res.skip # 0 THEN Max(@, res.skip) ELSE @,
                          !.extra_turn = @ \/ res.extra_turn]
        a2 == IF res.needs_color_choice
              THEN [a1 EXCEPT !.halt = TRUE,
                       !.st = [a1.st EXCEPT !.phase = "awaiting_response",
                                  !.pendingAction = [NoPending EXCEPT !.type = "choose_color",
                                      !.playerId = pid, !.cardId = card.id,
                                      !.drawCount = res.draw_count,
                                      !.isWildDraw = res.is_wild_draw,
                                      !.drawN = res.draw_n]]]
              ELSE a1
        a3 == IF res.needs_target
              THEN [a2 EXCEPT !.halt = TRUE,
                       !.st = [a2.st EXCEPT !.phase = "awaiting_response",
                                  !.pendingAction = [NoPending EXCEPT !.type = res.pending_type,
                                      !.playerId = pid, !.cardId = card.id]]]
              ELSE a2
        adv == IF a3.halt THEN a3.st ELSE _advance_turn(a3.st, 0)
        a4 == IF res.challenge_window
              THEN [a3 EXCEPT !.halt = TRUE,
                       !.skip_extra = IF a3.halt THEN @ ELSE 0,
                       !.st = [adv EXCEPT !.phase = "awaiting_response",
                                  !.pendingAction = [NoPending EXCEPT
                                      !.type = "challenge_or_accept",
                                      !.playerId = adv.currentTurnPlayerId,
                                      !.challengedPlayerId = pid,
                                      !.drawCount = res.draw_count]]]
              ELSE a3
    IN a4

\* the effect loop of _action_play_card from effect i on:
\* [st, halt, skip_extra, extra_turn, trig, exc]
RECURSIVE PlayEffectLoop(_, _, _, _, _, _)

\* the loop body of _action_play_card after the handler of effect i returned out
PlayEffectDone(acc, pid, card, i, a, out) ==
    IF out.exc # "" THEN [acc EXCEPT !.st = out.st, !.exc = out.exc, !.trig = <<>>]
    ELSE IF out.res.isNone
         THEN PlayEffectLoop([acc EXCEPT !.st = out.st], pid, card, i + 1, a, out.trig)
    ELSE PlayEffectLoop(AfterResult([acc EXCEPT !.st = out.st], pid, card, out.res),
                        pid, card, i + 1, a, out.trig)

\* the loop body of _action_play_card for an eliminate effect whose conditions
\* failed and that is followed by a defuse effect: dout is _effect_defuse's return
PlayEffectDefused(acc, pid, card, i, a, dout) ==
    PlayEffectLoop([acc EXCEPT !.st = dout.st, !.halt = @ \/ dout.res.halt_turn_advance],
                   pid, card, i + 1, a, dout.trig)

\* an effect loop that ends at the first effect without a handler
PlayEffectLoopBreaking(acc, pid, card, i, a, trig) ==
    LET effects == Effects(acc.st, card)
        eff == effects[i]
    IN IF i > Len(effects) THEN [acc EXCEPT !.trig = trig]
       ELSE IF Len(eff.conditions) > 0 /\ ~_check_conditions(eff.conditions, acc.st, pid).met
       THEN PlayEffectLoop(acc, pid, card, i + 1, a, Append(trig, "condition_failed"))
       ELSE IF ~KnownEffect(acc.st, eff.type) THEN [acc EXCEPT !.trig = trig]
       ELSE PlayEffectDone(acc, pid, card, i, a,
                           RunEffect(eff.type, acc.st, pid, card, eff, a, trig))

PlayEffectLoop(acc, pid, card, i, a, trig) ==
    LET effects == Effects(acc.st, card)
        eff == effects[i]
        IsDefuseEff(e) == e.type = "defuse"
        di == FirstIdx(effects, IsDefuseEff)
    IN IF i > Len(effects) THEN [acc EXCEPT !.trig = trig]
       ELSE IF Len(eff.conditions) > 0 /\ ~_check_conditions(eff.conditions, acc.st, pid).met
       THEN IF eff.type = "eliminate" /\ di >= 0
            THEN PlayEffectDefused(acc, pid, card, i, a,
                     _effect_defuse(acc.st, pid, card, effects[di + 1], a, trig))
            ELSE PlayEffectLoop(acc, pid, card, i + 1, a, Append(trig, "condition_failed"))
       ELSE IF ~KnownEffect(acc.st, eff.type) THEN PlayEffectLoop(acc, pid, card, i + 1, a, trig)
       ELSE PlayEffectDone(acc, pid, card, i, a,
                           RunEffect(eff.type, acc.st, pid, card, eff, a, trig))

\* universal._action_play_card from the win check on: fin is the effect loop's
\* outcome, hookHalt the plugin hook's halt_turn_advance
PlayFinish(a, hookHalt, fin, win) ==
    LET one == Len(Hand(fin.st, a.playerId)) = 1
        uno == IF one THEN [fin.st EXCEPT !.metadata.hasUnoCalledBy = TRUE] ELSE fin.st
        trig == IF one THEN Append(fin.trig, "uno_warning") ELSE fin.trig
    IN IF fin.exc # "" THEN Ret(FALSE, "Effect handler error", <<>>, fin.st)
       ELSE IF fin.st.phase = "ended" THEN Ret(TRUE, "", fin.trig, fin.st)
       ELSE IF win.won THEN Ret(TRUE, "", Append(fin.trig, "win"), win.st)
       ELSE IF fin.halt \/ hookHalt THEN Ret(TRUE, "", trig, uno)
       ELSE IF fin.extra_turn THEN Ret(TRUE, "", trig, [uno EXCEPT !.turnNumber = @ + 1])
       ELSE Ret(TRUE, "", trig, _advance_turn(uno, fin.skip_extra))

\* universal._action_play_card from the effect loop on
PlayEffects(a, hookHalt, fin) == PlayFinish(a, hookHalt, fin, _check_win(fin.st, a.playerId))

\* a play_card that takes the card out of the hand before it asks whether
\* the card may be played
PlayCardMovingFirst(s, a) ==
    LET pi == _get_player(s, a.playerId)
        hand == s.players[pi].hand
        card == ById(hand, a.cardId)
        hook == CallHook(s, a, card)
        s1 == [hook.st EXCEPT !.players[pi].hand = Remove(hand, card),
                              !.discard = IF s.hasZones THEN <<card>> \o @ ELSE @]
    IN IF pi = 0 THEN Ret(FALSE, "Player not found", <<>>, s)
       ELSE IF s.currentTurnPlayerId # a.playerId THEN Ret(FALSE, "Not your turn", <<>>, s)
       ELSE IF s.phase # "playing" THEN Ret(FALSE, "Cannot play a card right now", <<>>, s)
       ELSE IF ~HasId(hand, a.cardId) THEN Ret(FALSE, "Card not in hand", <<>>, s)
       ELSE IF ~_can_play_card(card, s)
            THEN Ret(FALSE, "That card cannot be played right now", <<>>, s1)
       ELSE IF ~hook.valid THEN Ret(FALSE, "Invalid play", <<>>, s1)
       ELSE PlayEffects(a, hook.halt,
                PlayEffectLoop([st |-> s1, halt |-> FALSE, skip_extra |-> 0,
                                extra_turn |-> FALSE, trig |-> <<>>, exc |-> ""],
                               a.playerId, card, 1, a, <<"played">>))

\* universal._action_play_card
_action_play_card(s, a) ==
    LET pi == _get_player(s, a.playerId)
        hand == s.players[pi].hand
        card == ById(hand, a.cardId)
        hook == CallHook(s, a, card)
        s1 == [hook.st EXCEPT !.players[pi].hand = Remove(hand, card),
                              !.discard = IF s.hasZones THEN <<card>> \o @ ELSE @]
    IN IF pi = 0 THEN Ret(FALSE, "Player not found", <<>>, s)
       ELSE IF s.currentTurnPlayerId # a.playerId THEN Ret(FALSE, "Not your turn", <<>>, s)
       ELSE IF s.phase # "playing" THEN Ret(FALSE, "Cannot play a card right now", <<>>, s)
       ELSE IF ~HasId(hand, a.cardId) THEN Ret(FALSE, "Card not in hand", <<>>, s)
       ELSE IF ~_can_play_card(card, s)
            THEN Ret(FALSE, "That card cannot be played right now", <<>>, s)
       ELSE IF ~hook.valid
            THEN Ret(FALSE, IF hook.err = "" THEN "Invalid play" ELSE hook.err, <<>>, hook.st)
       ELSE PlayEffects(a, hook.halt,
                PlayEffectLoop([st |-> s1, halt |-> FALSE, skip_extra |-> 0,
                                extra_turn |-> FALSE, trig |-> <<>>, exc |-> ""],
                               a.playerId, card, 1, a, <<"played">>))

\* the drawUntilPlayable loop of _action_draw_card; lastDrawn is drawn[-1]
RECURSIVE DrawUntilPlayable(_, _, _, _)
DrawUntilPlayable(s, pid, lastDrawn, k) ==
    LET s1 == _draw_n(s, pid, 1, k)
        h1 == Hand(s1, pid)
    IN IF _can_play_card(lastDrawn, s) THEN s
       ELSE IF Len(h1) = Len(Hand(s, pid)) THEN s1
       ELSE DrawUntilPlayable(s1, pid, h1[Len(h1)], k)

\* a draw_card that takes one card of a stacked penalty per call and keeps
\* the turn while cards are still owed
DrawOnePerAction(s, a) ==
    LET pi == _get_player(s, a.playerId)
        pending == s.metadata.pendingDraw
        n == IF pending > 0 THEN 1 ELSE Game(s.gameType).rules.drawCount
        left == Max(0, pending - 1)
        s1 == _draw_n([s EXCEPT !.metadata.pendingDraw = left], a.playerId, n, a.rnd.k)
    IN IF pi = 0 THEN Ret(FALSE, "Player not found", <<>>, s)
       ELSE IF s.currentTurnPlayerId # a.playerId THEN Ret(FALSE, "Not your turn", <<>>, s)
       ELSE IF s.phase # "playing" THEN Ret(FALSE, "Cannot draw right now", <<>>, s)
       ELSE IF left > 0 THEN Ret(TRUE, "", <<"drew">>, s1)
       ELSE Ret(TRUE, "", <<"drew">>, _advance_turn(s1, 0))

\* universal._action_draw_card
_action_draw_card(s, a) ==
    LET pi == _get_player(s, a.playerId)
        pending == s.metadata.pendingDraw
        n == IF pending > 0 THEN pending ELSE Game(s.gameType).rules.drawCount
        s1 == _draw_n([s EXCEPT !.metadata.pendingDraw = 0], a.playerId, n, a.rnd.k)
        h1 == s1.players[pi].hand
        got == Len(h1) > Len(s.players[pi].hand)
        s2 == IF got /\ _cfg(s).drawUntilPlayable
              THEN DrawUntilPlayable(s1, a.playerId, h1[Len(h1)], a.rnd.k) ELSE s1
    IN IF pi = 0 THEN Ret(FALSE, "Player not found", <<>>, s)
       ELSE IF s.currentTurnPlayerId # a.playerId THEN Ret(FALSE, "Not your turn", <<>>, s)
       ELSE IF s.phase # "playing" THEN Ret(FALSE, "Cannot draw right now", <<>>, s)
       ELSE IF pending > 0 THEN Ret(TRUE, "", <<"drew">>, _advance_turn(s1, 0))
       ELSE Ret(TRUE, "", <<"drew">>, _advance_turn(s2, 0))

\* a choose_color that takes whatever colour the request carries
ChooseColorUnchecked(s, a) ==
    LET pending == s.pendingAction
        s1 == [s EXCEPT !.metadata.activeColor = a.color,
                        !.discard = IF Len(@) > 0
                                    THEN <<[@[1] EXCEPT !.color = a.color]>> \o Tail(@) ELSE @,
                        !.pendingAction = NoPending, !.phase = "playing"]
    IN IF pending.type # "choose_color" THEN Ret(FALSE, "No color choice pending", <<>>, s)
       ELSE IF a.playerId # pending.playerId THEN Ret(FALSE, "Not your pending action", <<>>, s)
       ELSE Ret(TRUE, "", <<"color_chosen">>, _advance_turn(s1, 0))

\* universal._action_choose_color
_action_choose_color(s, a) ==
    LET pending == s.pendingAction
        valid == _cfg(s).colors
        s1 == [s EXCEPT !.metadata.activeColor = a.color,
                        !.discard = IF Len(@) > 0
                                    THEN <<[@[1] EXCEPT !.color = a.color]>> \o Tail(@) ELSE @,
                        !.pendingAction = NoPending, !.phase = "playing"]
        hasPlayer == _get_player(s1, pending.playerId) # 0
        win == _check_win(s1, pending.playerId)
        s2 == _advance_turn(s1, 0)
        s3 == [s2 EXCEPT !.phase = "awaiting_response",
                         !.pendingAction = [NoPending EXCEPT !.type = "challenge_or_accept",
                                               !.playerId = s2.currentTurnPlayerId,
                                               !.challengedPlayerId = pending.playerId,
                                               !.drawCount = pending.drawCount]]
    IN IF pending.type # "choose_color" THEN Ret(FALSE, "No color choice pending", <<>>, s)
       ELSE IF a.playerId # pending.playerId THEN Ret(FALSE, "Not your pending action", <<>>, s)
       ELSE IF Len(valid) = 0 THEN Ret(FALSE, "Game config must define 'colors' array", <<>>, s)
       ELSE IF ~InSeq(a.color, valid) THEN Ret(FALSE, "Invalid color", <<>>, s)
       ELSE IF hasPlayer /\ win.won THEN Ret(TRUE, "", <<"color_chosen", "win">>, win.st)
       ELSE IF pending.isWildDraw /\ pending.drawCount > 0
               /\ _cfg(s).allowWildDraw4Challenge /\ Len(_active(s1)) > 2
            THEN Ret(TRUE, "", <<"color_chosen", "wild_draw_pending">>, s3)
       ELSE Ret(TRUE, "", <<"color_chosen">>, s2)

\* universal._action_insert_card
_action_insert_card(s, a) ==
    LET pending == s.pendingAction
        s1 == [s EXCEPT !.draw = IF s.hasZones
                                 THEN InsertAt(@, InsertPos(a, Len(s.draw)), pending.card) ELSE @,
                        !.pendingAction = NoPending, !.phase = "playing"]
    IN IF pending.type # "insert_card" THEN Ret(FALSE, "No insert pending", <<>>, s)
       ELSE IF a.playerId # pending.playerId THEN Ret(FALSE, "Not your action", <<>>, s)
       ELSE Ret(TRUE, "", <<"card_inserted">>, _advance_turn(s1, 0))

\* universal._action_give_card
_action_give_card(s, a) ==
    LET pending == s.pendingAction
        gi == _get_player(s, pending.targetPlayerId)
        ri == _get_player(s, pending.playerId)
        ghand == s.players[gi].hand
        named == a.cardId # "" /\ HasId(ghand, a.cardId)
        card == IF named THEN ById(ghand, a.cardId) ELSE ghand[(a.rnd.pick % Len(ghand)) + 1]
        s1 == [s EXCEPT !.players[gi].hand = Remove(ghand, card)]
        s2 == [s1 EXCEPT !.players[ri].hand = Append(@, card),
                         !.pendingAction = NoPending, !.phase = "playing"]
    IN IF pending.type # "give_card" THEN Ret(FALSE, "No give_card pending", <<>>, s)
       ELSE IF a.playerId # pending.targetPlayerId THEN Ret(FALSE, "Not your action", <<>>, s)
       ELSE IF gi = 0 \/ ri = 0 THEN Ret(FALSE, "Player not found", <<>>, s)
       ELSE IF ~named /\ Len(ghand) = 0 THEN Ret(FALSE, "No cards to give", <<>>, s)
       ELSE Ret(TRUE, "", <<"give_resolved">>, _advance_turn(s2, 0))

\* universal._action_challenge
_action_challenge(s, a) ==
    LET pending == s.pendingAction
        hasChallenger == _get_player(s, pending.playerId) # 0
        hasChallenged == _get_player(s, pending.challengedPlayerId) # 0
        s1 == [s EXCEPT !.pendingAction = NoPending, !.phase = "playing",
                        !.metadata.pendingDraw = 0]
        accept == IF hasChallenger
                  THEN _draw_n(s1, pending.playerId, pending.drawCount, a.rnd.k) ELSE s1
        success == IF hasChallenged
                   THEN _draw_n(s1, pending.challengedPlayerId, 4, a.rnd.k) ELSE s1
        failed == IF hasChallenger
                  THEN _draw_n(s1, pending.playerId, pending.drawCount + 2, a.rnd.k) ELSE s1
    IN IF pending.type # "challenge_or_accept" THEN Ret(FALSE, "No challenge pending", <<>>, s)
       ELSE IF a.playerId # pending.playerId THEN Ret(FALSE, "Not your challenge", <<>>, s)
       ELSE IF ~a.challenge THEN Ret(TRUE, "", <<"accepted">>, _advance_turn(accept, 0))
       ELSE IF s.metadata.lastWildDraw4WasIllegal
            THEN Ret(TRUE, "", <<"challenge_success">>, success)
       ELSE Ret(TRUE, "", <<"challenge_failed">>, _advance_turn(failed, 0))

\* universal._action_select_target
_action_select_target(s, a) ==
    IF s.pendingAction.type = "none" THEN Ret(FALSE, "No pending action", <<>>, s)
    ELSE IF s.pendingAction.type = "give_card" THEN _action_give_card(s, a)
    ELSE IF s.pendingAction.type = "challenge_or_accept" THEN _action_challenge(s, a)
    ELSE Ret(FALSE, "Unknown pending type", <<>>, s)

\* universal._action_call_uno
_action_call_uno(s, a) ==
    LET pi == _get_player(s, a.playerId)
    IN IF pi = 0 \/ Len(s.players[pi].hand) # 1
       THEN Ret(FALSE, "Can only call UNO with exactly 1 card", <<>>, s)
       ELSE Ret(TRUE, "", <<"uno_called">>,
                [s EXCEPT !.metadata.hasUnoCalledBy = TRUE,
                          !.metadata.unoCalledBy = @ \cup {a.playerId}])

\* universal._action_catch_uno
_action_catch_uno(s, a) ==
    LET ti == _get_player(s, a.targetPlayerId)
        ci == _get_player(s, a.playerId)
    IN IF ti = 0 \/ ci = 0 THEN Ret(FALSE, "Player not found", <<>>, s)
       ELSE IF a.targetPlayerId \in s.metadata.unoCalledBy
            THEN Ret(FALSE, "already called UNO", <<>>, s)
       ELSE IF Len(s.players[ti].hand) # 1 THEN Ret(FALSE, "That player doesn't have 1 card", <<>>, s)
       ELSE Ret(TRUE, "", <<"caught_uno">>, _draw_n(s, a.targetPlayerId, 2, a.rnd.k))

\* UnoButWith1000Plugin._action_choose_color
Uno1000_action_choose_color(s, a) ==
    LET pending == s.pendingAction
        s1 == [s EXCEPT !.metadata.activeColor = a.color,
                        !.discard = IF Len(@) > 0
                                    THEN <<[@[1] EXCEPT !.color = a.color]>> \o Tail(@) ELSE @,
                        !.pendingAction = NoPending, !.phase = "playing"]
        s2 == IF pending.isWildDraw THEN _advance_turn(s1, 0) ELSE s1
    IN IF pending.type # "choose_color" THEN Ret(FALSE, "No color choice pending", <<>>, s)
       ELSE IF a.playerId # pending.playerId THEN Ret(FALSE, "Not your color choice", <<>>, s)
       ELSE IF ~InSeq(a.color, _cfg(s).colors) THEN Ret(FALSE, "Invalid color", <<>>, s)
       ELSE IF Len(Hand(s2, pending.playerId)) = 0
            THEN Ret(TRUE, "", <<"color_chosen", "win">>, Wins(s2, pending.playerId))
       ELSE Ret(TRUE, "", <<"color_chosen">>, s2)

\* UnoButWith1000Plugin._action_call_uno
Uno1000_action_call_uno(s, a) ==
    LET pi == _get_player(s, a.playerId)
    IN IF pi = 0 THEN Ret(FALSE, "Player not found", <<>>, s)
       ELSE IF Len(s.players[pi].hand) # 1 THEN Ret(FALSE, "Can only call UNO with 1 card", <<>>, s)
       ELSE Ret(TRUE, "", <<"uno_called">>,
                [s EXCEPT !.metadata.hasUnoCalledBy = TRUE,
                          !.metadata.unoCalledBy = @ \cup {a.playerId}])

\* UnoButWith1000Plugin._action_catch_uno
Uno1000_action_catch_uno(s, a) ==
    LET ti == _get_player(s, a.targetPlayerId)
        ci == _get_player(s, a.playerId)
    IN IF ti = 0 \/ ci = 0 THEN Ret(FALSE, "Player not found", <<>>, s)
       ELSE IF a.targetPlayerId \in s.metadata.unoCalledBy
            THEN Ret(FALSE, "Already called UNO", <<>>, s)
       ELSE IF Len(s.players[ti].hand) # 1 THEN Ret(FALSE, "Player doesn't have 1 card", <<>>, s)
       ELSE Ret(TRUE, "", <<"caught_uno">>, _draw_n(s, a.targetPlayerId, 2, a.rnd.k))

\* UnoButWith1000Plugin._draw_extreme: the discard pile below its top card is
\* put back under the draw pile whenever the draw pile is empty, at most
\* MaxAttempts rounds
MaxAttempts == 10

RECURSIVE _draw_extreme(_, _, _, _, _)
_draw_extreme(s, pid, count, attempts, k) ==
    LET refill == Len(s.draw) = 0
        s1 == IF refill
              THEN [s EXCEPT !.draw = Tail(s.discard), !.discard = <<Head(s.discard)>>] ELSE s
        n == Min(count, Len(s1.draw))
    IN IF count <= 0 \/ attempts >= MaxAttempts THEN s
       ELSE IF refill /\ Len(s.discard) <= 1 THEN s
       ELSE _draw_extreme(IF n > 0 THEN _draw_n(s1, pid, n, k) ELSE s1,
                          pid, count - n, attempts + 1, k)

\* UnoButWith1000Plugin._action_challenge
Uno1000_action_challenge(s, a) ==
    LET pending == s.pendingAction
        hasChallenger == _get_player(s, pending.playerId) # 0
        hasChallenged == _get_player(s, pending.challengedPlayerId) # 0
        penalty == IF pending.drawCount >= 1000 THEN 6 ELSE pending.drawCount + 2
        s1 == [s EXCEPT !.pendingAction = NoPending, !.phase = "playing",
                        !.metadata.pendingDraw = 0]
        accept == IF hasChallenger
                  THEN _draw_extreme(s1, pending.playerId, pending.drawCount, 0, a.rnd.k) ELSE s1
        success == IF hasChallenged
                   THEN _draw_n(s1, pending.challengedPlayerId, 4, a.rnd.k) ELSE s1
        failed == IF hasChallenger
                  THEN _draw_extreme(s1, pending.playerId, penalty, 0, a.rnd.k) ELSE s1
    IN IF pending.type # "challenge_or_accept" THEN Ret(FALSE, "No challenge pending", <<>>, s)
       ELSE IF ~a.challenge THEN Ret(TRUE, "", <<"accepted">>, _advance_turn(accept, 0))
       ELSE IF s.metadata.lastWildDrawWasIllegal
            THEN Ret(TRUE, "", <<"challenge_success">>, success)
       ELSE Ret(TRUE, "", <<"challenge_failed">>, _advance_turn(failed, 0))

\* UnoButWith1000Plugin.get_custom_actions
Uno1000ActionTypes == {"choose_color", "call_uno", "catch_uno", "challenge_wild_draw4",
                       "challenge_wild_draw_1000"}

Uno1000_custom_actions(s, a) ==
    CASE a.type = "choose_color" -> Uno1000_action_choose_color(s, a)
      [] a.type = "call_uno"     -> Uno1000_action_call_uno(s, a)
      [] a.type = "catch_uno"    -> Uno1000_action_catch_uno(s, a)
      [] OTHER                   -> Uno1000_action_challenge(s, a)

\* UnoPlugin._action_choose_color
Uno_action_choose_color(s, a) ==
    LET pending == s.pendingAction
        s1 == [s EXCEPT !.metadata.activeColor = a.color,
                        !.discard = IF Len(@) > 0
                                    THEN <<[@[1] EXCEPT !.color = a.color]>> \o Tail(@) ELSE @,
                        !.pendingAction = NoPending, !.phase = "playing"]
        s2 == IF pending.isWildDraw THEN _advance_turn(s1, 0) ELSE s1
    IN IF pending.type # "choose_color" THEN Ret(FALSE, "No color choice pending", <<>>, s)
       ELSE IF a.playerId # pending.playerId THEN Ret(FALSE, "Not your color choice", <<>>, s)
       ELSE IF ~InSeq(a.color, _cfg(s).colors) THEN Ret(FALSE, "Invalid color", <<>>, s)
       ELSE IF Len(Hand(s2, pending.playerId)) = 0
            THEN Ret(TRUE, "", <<"color_chosen", "win">>, Wins(s2, pending.playerId))
       ELSE Ret(TRUE, "", <<"color_chosen">>, s2)

\* UnoPlugin._action_call_uno
Uno_action_call_uno(s, a) ==
    LET pi == _get_player(s, a.playerId)
    IN IF pi = 0 THEN Ret(FALSE, "Player not found", <<>>, s)
       ELSE IF Len(s.players[pi].hand) # 1
            THEN Ret(FALSE, "Can only call UNO with exactly 1 card", <<>>, s)
       ELSE Ret(TRUE, "", <<"uno_called">>,
                [s EXCEPT !.metadata.hasUnoCalledBy = TRUE,
                          !.metadata.unoCalledBy = @ \cup {a.playerId}])

\* UnoPlugin._action_catch_uno
Uno_action_catch_uno(s, a) ==
    LET ti == _get_player(s, a.targetPlayerId)
        ci == _get_player(s, a.playerId)
    IN IF ti = 0 \/ ci = 0 THEN Ret(FALSE, "Player not found", <<>>, s)
       ELSE IF a.targetPlayerId \in s.metadata.unoCalledBy
            THEN Ret(FALSE, "already called UNO", <<>>, s)
       ELSE IF Len(s.players[ti].hand) # 1 THEN Ret(FALSE, "That player doesn't have 1 card", <<>>, s)
       ELSE Ret(TRUE, "", <<"caught_uno">>, _draw_n(s, a.targetPlayerId, 2, a.rnd.k))

\* a challenge handler that passes the turn on whatever the outcome
ChallengeAlwaysPassing(s, a) ==
    LET r == _action_challenge(s, a)
    IN IF r.ok /\ r.trig = <<"challenge_success">>
       THEN [r EXCEPT !.st = _advance_turn(r.st, 0)] ELSE r

\* UnoPlugin._action_challenge: statement for statement the handler of the
\* universal engine
Uno_action_challenge(s, a) ==
    LET pending == s.pendingAction
        hasChallenger == _get_player(s, pending.playerId) # 0
        hasChallenged == _get_player(s, pending.challengedPlayerId) # 0
        s1 == [s EXCEPT !.pendingAction = NoPending, !.phase = "playing",
                        !.metadata.pendingDraw = 0]
        accept == IF hasChallenger
                  THEN _draw_n(s1, pending.playerId, pending.drawCount, a.rnd.k) ELSE s1
        success == IF hasChallenged
                   THEN _draw_n(s1, pending.challengedPlayerId, 4, a.rnd.k) ELSE s1
        failed == IF hasChallenger
                  THEN _draw_n(s1, pending.playerId, pending.drawCount + 2, a.rnd.k) ELSE s1
    IN IF pending.type # "challenge_or_accept" THEN Ret(FALSE, "No challenge pending", <<>>, s)
       ELSE IF a.playerId # pending.playerId THEN Ret(FALSE, "Not your challenge", <<>>, s)
       ELSE IF ~a.challenge THEN Ret(TRUE, "", <<"accepted">>, _advance_turn(accept, 0))
       ELSE IF s.metadata.lastWildDraw4WasIllegal
            THEN Ret(TRUE, "", <<"challenge_success">>, success)
       ELSE Ret(TRUE, "", <<"challenge_failed">>, _advance_turn(failed, 0))

\* UnoPlugin.get_custom_actions
UnoActionTypes == {"choose_color", "call_uno", "catch_uno", "challenge_wild_draw4"}

Uno_custom_actions(s, a) ==
    CASE a.type = "choose_color" -> Uno_action_choose_color(s, a)
      [] a.type = "call_uno"     -> Uno_action_call_uno(s, a)
      [] a.type = "catch_uno"    -> Uno_action_catch_uno(s, a)
      [] OTHER                   -> Uno_action_challenge(s, a)

\* the universal dispatch table of apply_action
UniversalActionTypes == {"play_card", "draw_card", "choose_color", "insert_card", "give_card",
                         "select_target", "call_uno", "catch_uno", "challenge"}

\* universal.apply_action
apply_action(s, a) ==
    IF Game(s.gameType).plugin = "exploding_kittens" /\ a.type \in EKActionTypes
    THEN EK_custom_actions(s, a)
    ELSE IF Game(s.gameType).plugin = "uno_plus_1000" /\ a.type \in Uno1000ActionTypes
    THEN Uno1000_custom_actions(s, a)
    ELSE IF Game(s.gameType).plugin = "uno" /\ a.type \in UnoActionTypes
    THEN Uno_custom_actions(s, a)
    ELSE CASE a.type = "play_card"     -> _action_play_card(s, a)
           [] a.type = "draw_card"     -> _action_draw_card(s, a)
           [] a.type = "choose_color"  -> _action_choose_color(s, a)
           [] a.type = "insert_card"   -> _action_insert_card(s, a)
           [] a.type = "give_card"     -> _action_give_card(s, a)
           [] a.type = "select_target" -> _action_select_target(s, a)
           [] a.type = "call_uno"      -> _action_call_uno(s, a)
           [] a.type = "catch_uno"     -> _action_catch_uno(s, a)
           [] a.type = "challenge"     -> _action_challenge(s, a)
           [] OTHER -> Ret(FALSE, "Unknown action", <<>>, s)

\* ---------------------------------------------------------- specification

\* ActionRequest (schemas/requests.py) and the random outcomes its handling
\* consumes: rnd.k for random.shuffle, rnd.pick for random.choice / randint;
\* fault: the plugin hook called while the request is handled raises
Action(type, pid, cardId, target, pair, pos, color, challenge, k, pick) ==
    [type |-> type, playerId |-> pid, cardId |-> cardId, targetPlayerId |-> target,
     comboPairId |-> pair, position |-> pos, color |-> color, challenge |-> challenge,
     rnd |-> [k |-> k, pick |-> pick], fault |-> FALSE]

NoAction == Action("", 0, "", 0, "", -1, "", FALSE, 0, 0)
NoResult == [ok |-> TRUE, err |-> "", trig |-> <<>>, st |-> create_initial_state("")]

HandIds(s, p) == {s.players[p].hand[i].id : i \in 1..Len(s.players[p].hand)}
Shuffles == 0..MaxShuffle
Picks == 0..1

\* the random outcomes one call may consume
Rnd == [k : Shuffles, pick : Picks]

EffectTypesOf(s, p, cid) ==
    LET hand == s.players[p].hand
    IN IF HasId(hand, cid)
       THEN {Effects(s, ById(hand, cid))[i].type : i \in 1..Len(Effects(s, ById(hand, cid)))}
       ELSE {}

\* the play_card requests of player p: every card of the hand and no card,
\* a target where the card asks for one, a colour where it is wild, and for
\* the player to move a second card of the hand as combo pair; where
\* _action_play_card calls a plugin's on_card_played, the hook may raise
PlayRequests(s, p) ==
    LET P == 1..Len(s.players)
        own == HandIds(s, p)
        Targets(c) == IF EffectTypesOf(s, p, c) \cap {"give", "steal", "swap_hands"} # {}
                      THEN {0} \cup (P \ {p}) ELSE {0}
        Colours(c) == IF EffectTypesOf(s, p, c) \cap {"wild", "wild_draw"} # {}
                      THEN {""} \cup Range(_cfg(s).colors) ELSE {""}
        Pairs(c) == IF Game(s.gameType).plugin = "exploding_kittens"
                       /\ s.currentTurnPlayerId = p
                    THEN {""} \cup (own \ {c}) ELSE {""}
        Faults == IF Game(s.gameType).plugin \in {"", "exploding_kittens"}
                  THEN {FALSE} ELSE BOOLEAN
    IN UNION {{[Action("play_card", p, c, tg, c2, -1, col, FALSE, 0, 0) EXCEPT !.fault = f] :
                  tg \in Targets(c), col \in Colours(c), c2 \in Pairs(c), f \in Faults} :
              c \in {""} \cup own}

\* the requests that answer a pending action
PendingRequests(s, p) ==
    {Action(ty, p, "", 0, "", pos, "", FALSE, 0, 0) :
        ty \in {"insert_exploding", "insert_card"}, pos \in {-1, 0, 1}}
    \cup {Action(ty, p, c, 0, "", -1, "", FALSE, 0, 0) :
        ty \in {"give_card", "select_target"}, c \in {""} \cup HandIds(s, p)}
    \cup {Action("nope", p, c, 0, "", -1, "", FALSE, 0, 0) : c \in {""} \cup HandIds(s, p)}
    \cup {Action("resolve_nope_window", p, "", 0, "", -1, "", FALSE, 0, 0)}
    \cup {Action("choose_color", p, "", 0, "", -1, col, FALSE, 0, 0) :
        col \in {"", "green"} \cup Range(_cfg(s).colors)}
    \cup {Action(ty, p, "", 0, "", -1, "", ch, 0, 0) :
        ty \in {"challenge", "challenge_wild_draw4"}, ch \in BOOLEAN}

\* the requests a client can send for state s: plays and draws by anyone,
\* answers while something is pending or the game is over, the call_uno and
\* catch_uno buttons where the game configures them (defaultActions), and an
\* action type no handler knows
Requests(s) ==
    LET P == 1..Len(s.players)
    IN UNION {PlayRequests(s, p) : p \in P}
       \cup {Action("draw_card", p, "", 0, "", -1, "", FALSE, 0, 0) : p \in P}
       \cup (IF s.pendingAction.type # "none" \/ s.phase = "ended"
             THEN UNION {PendingRequests(s, p) : p \in P} ELSE {})
       \cup {Action("call_uno", p, "", 0, "", -1, "", FALSE, 0, 0) :
               p \in {q \in P : _cfg(s).defaultActions}}
       \cup {Action("catch_uno", p, "", tg, "", -1, "", FALSE, 0, 0) :
               p \in {q \in P : _cfg(s).defaultActions}, tg \in P}
       \cup {Action("dance", s.currentTurnPlayerId, "", 0, "", -1, "", FALSE, 0, 0)}

\* one room_action coroutine: the statement it executes next, its request,
\* the GameState get_state gave it and its local GameState object
NoTask(s) == [pc |-> "none", a |-> NoAction, read |-> s, loc |-> s]

\* one call of broadcast_state that has not started: the GameState it read,
\* the connection keys it listed, the key it sends to next and the number of
\* the save_state whose state it read
NoBroadcast == [snap |-> <<>>, keys |-> <<>>, i |-> 0, ver |-> 0]

\* no connection registered, no broadcast running
NoNet == [pc |-> "idle", conns |-> <<>>, up |-> {}, keys |-> <<>>, i |-> 0,
          snap |-> <<>>, got |-> {},
          bcast |-> [t \in 1..MaxTasks |-> NoBroadcast], inbox |-> <<>>]

\* no request in flight; base is the stored state the requests start from,
\* applied the requests whose result save_state stored, in that order
NoRoom(s) == [tasks |-> [t \in 1..MaxTasks |-> NoTask(s)], applied |-> <<>>,
              base |-> s, n |-> 0]

Init ==
    /\ state \in {create_initial_state(g) : g \in GameTypes}
    /\ pc = "idle"
    /\ last = NoAction
    /\ pre = state
    /\ result = NoResult
    /\ room = NoRoom(state)
    /\ net = NoNet

\* rooms.join_room
JoinRoom ==
    /\ pc = "idle"
    /\ \E r \in {add_player_to_state(state)} :
          /\ r.ok
          /\ state' = r.st
    /\ UNCHANGED <<pc, last, pre, result, room, net>>

\* rooms.start_room
StartRoom ==
    /\ pc = "idle"
    /\ \E k1 \in Shuffles, k2 \in Shuffles, fault \in BOOLEAN :
          \E r \in {StartGame(state, k1, k2, fault)} :
             /\ r.ok
             /\ state' = r.st
    /\ UNCHANGED <<pc, last, pre, result, room, net>>

\* rooms.room_action: the state is stored only when apply_action succeeds
RoomAction ==
    /\ pc = "idle"
    /\ state.phase \in {"playing", "awaiting_response"}
    /\ state.turnNumber <= MaxTurn
    /\ \E a \in Requests(state), rnd \in Rnd :
          \E r \in {apply_action(state, [a EXCEPT !.rnd = rnd])} :
             /\ last' = a
             /\ pre' = state
             /\ result' = r
             /\ state' = IF r.ok THEN r.st ELSE state
    /\ pc' = "returned"
    /\ UNCHANGED <<room, net>>

\* engine.apply_action called on the state of a finished game; room_action
\* answers 400 for such a room and stores nothing
EngineCall ==
    /\ pc = "idle"
    /\ state.phase = "ended"
    /\ \E a \in Requests(state), rnd \in Rnd :
          /\ last' = a
          /\ pre' = state
          /\ result' = apply_action(state, [a EXCEPT !.rnd = rnd])
    /\ pc' = "returned"
    /\ UNCHANGED <<state, room, net>>

\* the caller has its answer
Return ==
    /\ pc = "returned"
    /\ pc' = "idle"
    /\ last' = NoAction
    /\ pre' = state
    /\ result' = NoResult
    /\ UNCHANGED <<state, room, net>>

Next == JoinRoom \/ StartRoom \/ RoomAction \/ EngineCall \/ Return

Spec == Init /\ [][Next]_vars

\* ------------------------------------------------ concurrent room actions

\* a room_action that awaits the engine as well: other requests run between
\* its get_state and its apply_action
YieldPointsWithAwaitedEngine == {"apply_action", "broadcast_state"}

\* the statements of room_action at which the coroutine is suspended and
\* other requests of the event loop run: its only await
YieldPoints == {"broadcast_state"}

\* one statement of room_action executed by task t: rs is [room, state]
ExecStatement(rs, t) ==
    LET task == rs.room.tasks[t]
        inProgress == rs.state.phase \in {"playing", "awaiting_response"}
    IN CASE task.pc = "get_state" ->
                [rs EXCEPT !.room.tasks[t].read = rs.state,
                           !.room.tasks[t].loc = rs.state,
                           !.room.tasks[t].pc = IF inProgress THEN "apply_action" ELSE "done"]
         [] task.pc = "apply_action" ->
                [rs EXCEPT !.room.tasks[t].loc = apply_action(task.loc, task.a).st,
                           !.room.tasks[t].pc = IF apply_action(task.loc, task.a).ok
                                                THEN "save_state" ELSE "done"]
         [] task.pc = "save_state" ->
                [rs EXCEPT !.state = task.loc,
                           !.room.applied = Append(@, task.a),
                           !.room.tasks[t].pc = "broadcast_state"]
         [] task.pc = "broadcast_state" ->
                [rs EXCEPT !.room.tasks[t].pc = "done"]

\* task t runs on the event loop until it is suspended or returns
RECURSIVE RunTask(_, _)

\* task t after one statement: it goes on unless it awaits or has returned
RunNext(rs, t) ==
    IF rs.room.tasks[t].pc \in YieldPoints \cup {"done"} THEN rs ELSE RunTask(rs, t)

RunTask(rs, t) == RunNext(ExecStatement(rs, t), t)

\* the state of the stored GameStates of the games a room can have started
StartedStates ==
    {start_game(add_player_to_state(create_initial_state(g)).st, k1, k2).st :
        g \in GameTypes, k1 \in Shuffles, k2 \in Shuffles}

InitRoom ==
    /\ state \in StartedStates
    /\ pc = "idle"
    /\ last = NoAction
    /\ pre = state
    /\ result = NoResult
    /\ room = NoRoom(state)
    /\ net = NoNet

\* a room_action request arrives and its coroutine is created
Arrive(t) ==
    /\ room.tasks[t].pc \in {"none", "done"}
    /\ room.n < MaxRequests
    /\ \E a \in Requests(state), rnd \in Rnd :
          room' = [room EXCEPT !.tasks[t] = [NoTask(state) EXCEPT !.pc = "get_state",
                                                !.a = [a EXCEPT !.rnd = rnd]],
                               !.n = @ + 1]
    /\ UNCHANGED <<state, pc, last, pre, result, net>>

\* the event loop runs task t up to its next await or its return
RunToAwait(t) ==
    /\ room.tasks[t].pc \notin {"none", "done"}
    /\ \E rs \in {RunTask([room |-> room, state |-> state], t)} :
          /\ room' = rs.room
          /\ state' = rs.state
    /\ UNCHANGED <<pc, last, pre, result, net>>

NextRoom == \E t \in 1..MaxTasks : Arrive(t) \/ RunToAwait(t)

SpecRoom == InitRoom /\ [][NextRoom]_vars

\* ------------------------------------------------------------------ claims

InProgress(s) == s.phase \in {"playing", "awaiting_response"}
Returned == pc = "returned"

RECURSIVE Hands(_, _)
Hands(ps, i) == IF i > Len(ps) THEN <<>> ELSE ps[i].hand \o Hands(ps, i + 1)

\* the ids of the cards in all zones and all hands
CardIds(s) == LET all == s.draw \o s.discard \o Hands(s.players, 1)
              IN [i \in 1..Len(all) |-> all[i].id]

\* the ids of the cards setup_game builds for the players of s
SetupIds(s) ==
    LET g == Game(s.gameType)
        all == build_deck_from_definitions(g.cards) \o InjectFrom(g.cards, 1, Len(s.players))
    IN [i \in 1..Len(all) |-> all[i].id]

\* C1: card conservation. Once the game is set up (phase playing,
\* awaiting_response or ended) every card id occurs in the zones and hands
\* together exactly as often as in the deck setup_game built: none is
\* missing, none is added.
C1_CardConservation ==
    state.phase \in {"playing", "awaiting_response", "ended"} =>
        \A id \in Range(CardIds(state)) \cup Range(SetupIds(state)) :
            Count(CardIds(state), id) = Count(SetupIds(state), id)

\* C2: no card is in two places at once: every card id occurs at most once
\* over all zones and hands together.
C2_NoCardTwice ==
    \A id \in Range(CardIds(state)) : Count(CardIds(state), id) = 1

\* C3: single current player. In phase playing exactly one player has
\* isCurrentTurn set, it is the player named by currentTurnPlayerId, and that
\* player is active (neither eliminated nor winner).
C3_SingleCurrentPlayer ==
    state.phase = "playing" =>
        /\ Cardinality({i \in 1..Len(state.players) : state.players[i].isCurrentTurn}) = 1
        /\ \A i \in 1..Len(state.players) :
              state.players[i].isCurrentTurn =>
                 /\ state.players[i].id = state.currentTurnPlayerId
                 /\ state.players[i].status \notin {"eliminated", "winner"}

\* the forced draws the current player of s still owes: the attack counter of
\* the Exploding Kittens plugin, the stacked draw penalty of the universal engine
Owed(s) == s.metadata.attacks_pending + s.metadata.pendingDraw

\* what one apply_action call added to turnNumber
TurnDelta == result.st.turnNumber - pre.turnNumber

\* C4: monotonic turn number. One apply_action call never lowers turnNumber
\* and raises it by at most 1; it raises it by exactly 1 whenever the turn
\* passes to another player; a failed call, an accepted nope and a draw after
\* which the current player still owes forced draws raise it by 0, and that
\* draw leaves the turn where it was.
C4_MonotonicTurnNumber ==
    Returned =>
        /\ TurnDelta \in {0, 1}
        /\ result.st.currentTurnPlayerId # pre.currentTurnPlayerId => TurnDelta = 1
        /\ ~result.ok => TurnDelta = 0
        /\ (result.ok /\ last.type = "nope") => TurnDelta = 0
        /\ (result.ok /\ last.type = "draw_card" /\ Owed(result.st) > 0) =>
               /\ TurnDelta = 0
               /\ result.st.currentTurnPlayerId = pre.currentTurnPlayerId

\* a draw under attack that leaves one more forced draw: the turn and the
\* turn number stay
C4_Witness ==
    /\ Returned /\ result.ok /\ last.type = "draw_card"
    /\ pre.metadata.attacks_pending = 2
    /\ result.st.metadata.attacks_pending = 1
    /\ TurnDelta = 0

\* C5: terminal stability. An apply_action call on a state whose phase is
\* ended leaves the players (status, hands), the zones and the winner as
\* they were, whatever the action type and whoever sends it.
C5_TerminalStability ==
    (Returned /\ pre.phase = "ended") =>
        /\ result.st.players = pre.players
        /\ result.st.draw = pre.draw
        /\ result.st.discard = pre.discard
        /\ result.st.winner = pre.winner

\* a resolve_nope_window call on a pending nope window has returned
NopeWindowResolved ==
    /\ Returned /\ result.ok /\ last.type = "resolve_nope_window"
    /\ pre.pendingAction.type = "nope_window"

\* the played card of the resolved window has an effect of type etype
PlayedHas(etype) ==
    \E i \in 1..Len(pre.pendingAction.effects) : pre.pendingAction.effects[i].type = etype

\* C6: reaction parity. play_card opens the nope window with a toggle count
\* of 0 and every accepted Nope raises the count by exactly 1, whoever plays
\* it. When the window is resolved with an odd count nothing of the played
\* card is applied: the state is the one before the call with the window
\* closed. With an even count the effects run: a Skip records "skipped" and,
\* like an Attack, acts on the players still in the game: the Attack moves
\* the turn on and adds two forced draws, the Skip ends the turn or cancels a
\* forced draw.
C6_ReactionParity ==
    /\ (Returned /\ result.ok /\ last.type = "play_card"
            /\ result.st.pendingAction.type = "nope_window") =>
          result.st.pendingAction.nopeCount = 0
    /\ (Returned /\ result.ok /\ last.type = "nope"
            /\ pre.pendingAction.type = "nope_window") =>
          result.st.pendingAction =
              [pre.pendingAction EXCEPT !.nopeCount = pre.pendingAction.nopeCount + 1]
    /\ NopeWindowResolved =>
          IF pre.pendingAction.nopeCount % 2 = 1
          THEN /\ result.st = [pre EXCEPT !.pendingAction = NoPending, !.phase = "playing"]
               /\ result.trig = <<"noped", "nope_resolved">>
          ELSE /\ result.trig[1] = "played"
               /\ (PlayedHas("attack") /\ _active(pre) # <<>>) =>
                     /\ InSeq("attacked", result.trig)
                     /\ result.st.metadata.attacks_pending = pre.metadata.attacks_pending + 2
                     /\ result.st.currentTurnPlayerId # pre.currentTurnPlayerId
               /\ PlayedHas("skip") => InSeq("skipped", result.trig)
               /\ (PlayedHas("skip") /\ _active(pre) # <<>>) =>
                     \/ TurnDelta = 1
                     \/ result.st.metadata.attacks_pending < pre.metadata.attacks_pending

\* an Attack that was noped twice is resolved and applies
C6_Witness ==
    /\ NopeWindowResolved
    /\ pre.pendingAction.nopeCount = 2
    /\ PlayedHas("attack")
    /\ InSeq("attacked", result.trig)

\* the reasons of the validation failures: wrong turn, card not held, card
\* not playable, action type unknown
ValidationErrors ==
    {"Not your turn", "Card not in hand", "That card cannot be played right now",
     "Unknown action"}

\* C8: validation errors leave the state unchanged. When apply_action fails
\* because it is not the sender's turn, the card is not in the sender's hand,
\* the card may not be played now or the action type is unknown, the
\* GameState after the call is the GameState before it.
C8_ValidationLeavesState ==
    (Returned /\ ~result.ok /\ result.err \in ValidationErrors) => result.st = pre

\* the current player of the shedding game asks for a card that matches
\* neither colour nor number and is refused
C8_Witness ==
    /\ Returned /\ ~result.ok
    /\ result.err = "That card cannot be played right now"
    /\ last.type = "play_card"
    /\ result.st = pre

\* the player of s with the given id
PlayerOf(s, pid) == s.players[_get_player(s, pid)]

\* the current player of a two-player game of the elimination plugin, both
\* players still in the game, has drawn the exploding card from the top of the
\* draw pile while holding no defuse card
BombDrawnUndefended ==
    /\ Returned /\ result.ok /\ last.type = "draw_card"
    /\ Game(pre.gameType).plugin = "exploding_kittens"
    /\ Len(pre.players) = 2 /\ Len(_active(pre)) = 2
    /\ last.playerId = pre.currentTurnPlayerId
    /\ Len(pre.draw) > 0 /\ Subtype(pre, pre.draw[1]) = "exploding"
    /\ \A i \in 1..Len(Hand(pre, last.playerId)) :
          Subtype(pre, Hand(pre, last.playerId)[i]) # "defuse"

\* C9: scenario A. In a two-player elimination game the current player who
\* draws the injected exploding card without a defuse card in hand becomes
\* eliminated, the other player becomes winner and is recorded as the winner,
\* the phase becomes ended, and the turn is not advanced: current player and
\* turn number stay.
C9_ScenarioA ==
    BombDrawnUndefended =>
        /\ PlayerOf(result.st, last.playerId).status = "eliminated"
        /\ \A i \in 1..2 :
              result.st.players[i].id # last.playerId =>
                 /\ result.st.players[i].status = "winner"
                 /\ result.st.winner = result.st.players[i].id
        /\ result.st.phase = "ended"
        /\ result.st.currentTurnPlayerId = pre.currentTurnPlayerId
        /\ TurnDelta = 0

\* player 2 explodes and player 1 has won
C9_Witness ==
    /\ BombDrawnUndefended
    /\ last.playerId = 2
    /\ result.st.winner = 1
    /\ result.st.phase = "ended"

\* a draw_card of the current player has been carried out
DrawDone ==
    /\ Returned /\ result.ok /\ last.type = "draw_card"
    /\ last.playerId = pre.currentTurnPlayerId

\* by how many cards the hand of the player who sent the request grew
HandGrowth == Len(Hand(result.st, last.playerId)) - Len(Hand(pre, last.playerId))

\* the player who sent the request was in the game when the call was made
SenderActive == PlayerOf(pre, last.playerId).status \notin {"eliminated", "winner"}

RECURSIVE Replay(_, _, _)
Replay(s, seq, i) ==
    IF i > Len(seq) THEN [ok |-> TRUE, st |-> s]
    ELSE IF apply_action(s, seq[i]).ok THEN Replay(apply_action(s, seq[i]).st, seq, i + 1)
    ELSE [ok |-> FALSE, st |-> s]

\* the tasks that hold a GameState they read and have not stored yet
Mutating == {t \in 1..MaxTasks : room.tasks[t].pc \in {"apply_action", "save_state"}}

\* C7: actions of one room are serialized. Whatever requests are in flight,
\* the stored GameState is the result of applying the requests that were
\* stored, one after another in the order of their save_state, to the state
\* they started from, and each of them succeeds in that order (no lost
\* update); a task that holds a state it read and has not stored yet read the
\* state that is stored now; and at most one task is between its get_state
\* and its save_state.
C7_Serialized ==
    /\ Replay(room.base, room.applied, 1) = [ok |-> TRUE, st |-> state]
    /\ \A t \in Mutating : room.tasks[t].read = state
    /\ Cardinality(Mutating) <= 1

\* two requests were in flight together and both were stored: each is
\* suspended in its broadcast
C7_Witness ==
    /\ \A t \in 1..2 : room.tasks[t].pc = "broadcast_state"
    /\ Len(room.applied) = 2
    /\ state # room.base

\* the request that returned played a card of the sender's hand that has an
\* effect of type etype
PlayedEffect(etype) ==
    /\ Returned /\ last.type = "play_card"
    /\ _get_player(pre, last.playerId) # 0
    /\ etype \in EffectTypesOf(pre, _get_player(pre, last.playerId), last.cardId)

\* a wild card was played with success and without a colour of the configured
\* list
WildWithoutColour ==
    PlayedEffect("wild") /\ result.ok /\ ~InSeq(last.color, _cfg(pre).colors)

\* a choose_color request with a colour outside the configured list came in
\* while a colour choice was pending
InvalidColourChosen ==
    /\ Returned /\ last.type = "choose_color"
    /\ pre.pendingAction.type = "choose_color"
    /\ ~InSeq(last.color, _cfg(pre).colors)

_hidden_card == [id |-> "hidden", definitionId |-> "hidden", color |-> ""]

\* universal.get_available_default_actions: the buttons shown to player pid,
\* each with the target it names
get_available_default_actions(s, pid) ==
    LET i == _get_player(s, pid)
        Caught(j) == /\ s.players[j].id # pid
                     /\ s.players[j].status = "active"
                     /\ Len(s.players[j].hand) = 1
                     /\ s.players[j].id \notin s.metadata.unoCalledBy
        others == {j \in 1..Len(s.players) : Caught(j)}
        first == CHOOSE j \in others : \A k \in others : j <= k
    IN IF ~_cfg(s).defaultActions \/ i = 0 \/ s.phase # "playing" THEN {}
       ELSE (IF Len(s.players[i].hand) = 1 /\ pid \notin s.metadata.unoCalledBy
             THEN {[actionType |-> "call_uno", targetPlayerId |-> 0]} ELSE {})
            \cup (IF others # {}
                  THEN {[actionType |-> "catch_uno", targetPlayerId |-> s.players[first].id]}
                  ELSE {})

\* room_manager.broadcast_state: the players of the view sent to viewer pid,
\* the cards of every other player's hand replaced by hidden cards
MaskedPlayers(s, pid) ==
    [i \in 1..Len(s.players) |->
        IF s.players[i].id # pid
        THEN [s.players[i] EXCEPT !.hand = [j \in 1..Len(s.players[i].hand) |-> _hidden_card]]
        ELSE s.players[i]]

\* room_manager.broadcast_state: the state_update view sent to viewer pid.
\* state.dict() carries the winner as a whole Player (GameState.winner) and
\* only view["players"] is masked.
View(s, pid) ==
    [state |-> [s EXCEPT !.players = MaskedPlayers(s, pid)],
     winner |-> IF s.winner = 0 THEN <<>> ELSE <<PlayerOf(s, s.winner)>>,
     availableActions |-> get_available_default_actions(s, pid)]

\* s with every card in the hands of the players other than pid replaced by
\* another card: a room state that differs from s only in the identities of
\* those cards
OtherHands(s, pid) ==
    [s EXCEPT !.players =
        [i \in 1..Len(s.players) |->
            IF s.players[i].id # pid
            THEN [s.players[i] EXCEPT !.hand =
                     [j \in 1..Len(s.players[i].hand) |->
                         [id |-> "other", definitionId |-> "other", color |-> ""]]]
            ELSE s.players[i]]]

\* C12: masked views hide other players' hands. The view broadcast to a
\* viewer is the same for the stored state and for the state that differs
\* from it only in the identities of the cards in the other players' hands.
C12_MaskedViews ==
    \A i \in 1..Len(state.players) :
        View(state, state.players[i].id) =
            View(OtherHands(state, state.players[i].id), state.players[i].id)

\* ------------------------------------------------------------ broadcast

\* remove_connection: ROOM_CONNECTIONS[room_code].pop(player_id, None)
remove_connection(conns, pid) == SelectSeq(conns, LAMBDA q : q # pid)

\* a loop that lets the exception of a failed send end the broadcast
SendAbortingOnFailure(n, pid) ==
    IF pid \in Range(n.conns) /\ pid \notin n.up
    THEN [n EXCEPT !.i = Len(n.keys) + 1]
    ELSE [n EXCEPT !.got = @ \cup {[pid |-> pid, view |-> View(n.snap[1], pid)]},
                   !.i = @ + 1]

\* broadcast_state, one turn of its loop for the key pid: a key whose
\* connection is gone is skipped; the view is sent; a send that raises
\* removes the connection and the loop goes on
broadcast_send(n, pid) ==
    IF pid \notin Range(n.conns) THEN [n EXCEPT !.i = @ + 1]
    ELSE IF pid \in n.up
    THEN [n EXCEPT !.got = @ \cup {[pid |-> pid, view |-> View(n.snap[1], pid)]},
                   !.i = @ + 1]
    ELSE [n EXCEPT !.conns = remove_connection(@, pid), !.i = @ + 1]

\* the orders in which the players of s can have registered their sockets
ConnectionOrders(s) ==
    {c \in UNION {[1..k -> {q.id : q \in Range(s.players)}] : k \in 0..Len(s.players)} :
        \A i, j \in 1..Len(c) : i # j => c[i] # c[j]}

\* a started room, some of its players connected, some of the sockets broken
InitBroadcast ==
    /\ state \in StartedStates
    /\ pc = "idle"
    /\ last = NoAction
    /\ pre = state
    /\ result = NoResult
    /\ room = NoRoom(state)
    /\ \E c \in ConnectionOrders(state), up \in SUBSET {q.id : q \in Range(state.players)} :
          /\ up \subseteq Range(c)
          /\ net = [NoNet EXCEPT !.conns = c, !.up = up]

\* rooms.room_action up to the first await of broadcast_state: apply_action,
\* save_state, then broadcast_state reads the saved state and lists the keys
ActAndSave ==
    /\ pc = "idle"
    /\ net.pc = "idle"
    /\ state.phase \in {"playing", "awaiting_response"}
    /\ \E a \in Requests(state), rnd \in Rnd :
          \E r \in {apply_action(state, [a EXCEPT !.rnd = rnd])} :
             /\ r.ok
             /\ last' = a
             /\ pre' = state
             /\ result' = r
             /\ state' = r.st
             /\ net' = [net EXCEPT !.pc = "sending", !.keys = net.conns, !.i = 1,
                                   !.snap = <<r.st>>]
    /\ UNCHANGED <<pc, room>>

\* broadcast_state: one await ws.send_text for the next key
SendView ==
    /\ net.pc = "sending"
    /\ net.i <= Len(net.keys)
    /\ net' = broadcast_send(net, net.keys[net.i])
    /\ UNCHANGED <<state, pc, last, pre, result, room>>

\* broadcast_state returns and room_action answers
BroadcastDone ==
    /\ net.pc = "sending"
    /\ net.i > Len(net.keys)
    /\ net' = [net EXCEPT !.pc = "done"]
    /\ pc' = "returned"
    /\ UNCHANGED <<state, last, pre, result, room>>

\* websocket_endpoint on WebSocketDisconnect, while the broadcast awaits
Disconnect ==
    /\ net.pc = "sending"
    /\ \E pid \in Range(net.conns) :
          net' = [net EXCEPT !.conns = remove_connection(@, pid), !.up = @ \ {pid}]
    /\ UNCHANGED <<state, pc, last, pre, result, room>>

NextBroadcast == ActAndSave \/ SendView \/ BroadcastDone \/ Disconnect

SpecBroadcast == InitBroadcast /\ [][NextBroadcast]_vars

\* the viewers of the finished broadcast whose send raised
SendFailed == {pid \in Range(net.keys) : pid \notin net.up}

PhaseMoves ==
    {<<"lobby", "playing">>, <<"playing", "awaiting_response">>,
     <<"awaiting_response", "playing">>, <<"playing", "ended">>,
     <<"awaiting_response", "ended">>}

\* C14: phase state machine. Every successful apply_action call leaves the
\* phase as it was or makes one of the moves lobby -> playing,
\* playing <-> awaiting_response, playing / awaiting_response -> ended; an
\* ended state stays ended.
C14_PhaseMachine ==
    (Returned /\ result.ok) =>
        \/ result.st.phase = pre.phase
        \/ <<pre.phase, result.st.phase>> \in PhaseMoves

\* C15: in every stored state a pending action is recorded if and only if
\* the phase is awaiting_response.
C15_PendingIffAwaiting ==
    (state.pendingAction.type # "none") <=> (state.phase = "awaiting_response")

\* ------------------------------------------------------------ owed draws

\* a successful call moved the turn from the player whose turn it was
TurnPassed ==
    /\ Returned
    /\ result.ok
    /\ pre.phase # "ended"
    /\ pre.currentTurnPlayerId # 0
    /\ result.st.currentTurnPlayerId # pre.currentTurnPlayerId

\* the effect types of the card whose play the call carried out: the card
\* played, or the card of the nope window being resolved
CardEffectsApplied ==
    IF last.type = "play_card" /\ _get_player(pre, last.playerId) # 0
    THEN EffectTypesOf(pre, _get_player(pre, last.playerId), last.cardId)
    ELSE IF last.type = "resolve_nope_window"
    THEN {pre.pendingAction.effects[i].type : i \in 1..Len(pre.pendingAction.effects)}
    ELSE {}

\* the turn was passed by a card that does not hand the owed draws on
\* (no draw or attack effect) or by choosing the colour of a wild
PassedByCard ==
    /\ TurnPassed
    /\ last.type \in {"play_card", "resolve_nope_window", "choose_color"}
    /\ CardEffectsApplied \cap {"draw", "wild_draw", "attack"} = {}

\* C16: the engine never advances past a player who still owes draws. When
\* the turn passes from a player because of a card (wild, number, Skip) and
\* not because of a draw, that player's forced-draw counter (pendingDraw,
\* attacks_pending) was 0.
C16_NoPassWhileOwing ==
    PassedByCard => Owed(pre) = 0

\* -------------------------------------------------------- win evaluation

\* the players of s that are not eliminated
NotEliminated(s) == {i \in 1..Len(s.players) : s.players[i].status # "eliminated"}

\* the winner the configured policy names in s after an action of player
\* pid, 0 when its condition does not hold
PolicyWinner(s, pid) ==
    LET wc == Game(s.gameType).rules.winCondition
    IN IF wc = "empty_hand" /\ _get_player(s, pid) # 0 /\ Len(Hand(s, pid)) = 0 THEN pid
       ELSE IF wc = "last_standing" /\ Cardinality(NotEliminated(s)) = 1
       THEN s.players[CHOOSE i \in NotEliminated(s) : TRUE].id
       ELSE 0

\* a state-mutating action succeeded
ActionSucceeded ==
    /\ Returned
    /\ result.ok
    /\ last.type \in {"play_card", "draw_card", "give_card", "insert_card", "insert_exploding",
                      "challenge", "catch_uno", "call_uno", "choose_color",
                      "nope", "resolve_nope_window"}

\* C17: the win condition is evaluated after every state-mutating action.
\* After every successful apply_action, if the policy's condition holds in the
\* resulting state, the phase is ended and the winner is the player the
\* policy names.
C17_WinEvaluated ==
    (ActionSucceeded /\ PolicyWinner(result.st, last.playerId) # 0) =>
        /\ result.st.phase = "ended"
        /\ result.st.winner = PolicyWinner(result.st, last.playerId)

\* ----------------------------------------------------- plugin resolution

\* the plugin of the game of s registers a handler for action type ty
PluginHandles(s, ty) ==
    \/ Game(s.gameType).plugin = "exploding_kittens" /\ ty \in EKActionTypes
    \/ Game(s.gameType).plugin = "uno_plus_1000" /\ ty \in Uno1000ActionTypes
    \/ Game(s.gameType).plugin = "uno" /\ ty \in UnoActionTypes

\* what the plugin's handler returns for request a on s
PluginResult(s, a) ==
    IF Game(s.gameType).plugin = "exploding_kittens" THEN EK_custom_actions(s, a)
    ELSE IF Game(s.gameType).plugin = "uno" THEN Uno_custom_actions(s, a)
    ELSE Uno1000_custom_actions(s, a)

\* the call was a play_card of a card of the sender's hand that the plugin's
\* validate_card_play rejects
PluginRejectsPlay ==
    /\ Returned
    /\ last.type = "play_card"
    /\ _get_player(pre, last.playerId) # 0
    /\ HasId(Hand(pre, last.playerId), last.cardId)
    /\ ~validate_card_play(pre, last.playerId, ById(Hand(pre, last.playerId), last.cardId)).valid

\* C18: plugin resolution order. An action type the plugin registers is
\* answered by the plugin's handler alone, and a card play that the plugin's
\* validate_card_play rejects is rejected.
C18_PluginOrder ==
    /\ (Returned /\ PluginHandles(pre, last.type)) =>
            \E rnd \in Rnd : result = PluginResult(pre, [last EXCEPT !.rnd = rnd])
    /\ PluginRejectsPlay => ~result.ok

\* ------------------------------------------------------- hook exceptions

\* a play_card was handled by universal._action_play_card with a plugin
\* whose on_card_played hook raised
HookRaised ==
    /\ Returned
    /\ last.type = "play_card"
    /\ last.fault
    /\ Game(pre.gameType).plugin # ""
    /\ _get_player(pre, last.playerId) # 0
    /\ pre.currentTurnPlayerId = last.playerId
    /\ pre.phase = "playing"
    /\ HasId(Hand(pre, last.playerId), last.cardId)
    /\ _can_play_card(ById(Hand(pre, last.playerId), last.cardId), pre)

\* the play of card cid by player pid on s when no hook takes part: the card
\* moves to the discard pile, its effects run, the win check and turn advance
PlayWithoutHook(s, a) ==
    PlayEffects(a, FALSE,
        PlayEffectLoop([st |-> [s EXCEPT !.players[_get_player(s, a.playerId)].hand =
                                    Remove(@, ById(@, a.cardId)),
                                 !.discard = IF s.hasZones
                                             THEN <<ById(Hand(s, a.playerId), a.cardId)>> \o @
                                             ELSE @],
                        halt |-> FALSE, skip_extra |-> 0, extra_turn |-> FALSE,
                        trig |-> <<>>, exc |-> ""],
                       a.playerId, ById(Hand(s, a.playerId), a.cardId), 1, a, <<"played">>))

InitRainbow ==
    /\ state \in {start_game(add_player_to_state(create_initial_state("kittens_rainbow")).st,
                             k1, k2).st : k1 \in Shuffles, k2 \in Shuffles}
    /\ pc = "idle"
    /\ last = NoAction
    /\ pre = state
    /\ result = NoResult
    /\ room = NoRoom(state)
    /\ net = NoNet

NextRainbow == RoomAction \/ Return

SpecRainbow == InitRainbow /\ [][NextRainbow]_vars

\* the call resolved a nope window that was not noped, for a card whose
\* first effect is a wild effect in a game without colours: the handler of
\* effect 1 raises
FirstEffectRaised ==
    /\ Returned
    /\ last.type = "resolve_nope_window"
    /\ pre.pendingAction.type = "nope_window"
    /\ pre.pendingAction.nopeCount % 2 = 0
    /\ _get_player(pre, pre.pendingAction.playerId) # 0
    /\ Len(pre.pendingAction.effects) > 1
    /\ pre.pendingAction.effects[1].type = "wild"
    /\ Len(_cfg(pre).colors) = 0

\* C20: a failing effect handler aborts only its own action. When the first
\* effect of the card raises, apply_action returns failure with an error
\* message and the effects after it are not applied (no attack is added, the
\* turn does not pass).
C20_FailingEffectAborts ==
    FirstEffectRaised =>
        /\ ~result.ok
        /\ result.err # ""
        /\ result.st.metadata.attacks_pending = pre.metadata.attacks_pending
        /\ result.st.currentTurnPlayerId = pre.currentTurnPlayerId

\* ------------------------------------------------------- exhausted piles

\* a draw_card request was answered while the draw pile was empty and the
\* discard pile could not be recycled (at most one card), in a game in play
\* and sent by the player whose turn it was
DrawFromExhausted ==
    /\ Returned /\ last.type = "draw_card"
    /\ pre.phase = "playing"
    /\ last.playerId = pre.currentTurnPlayerId
    /\ Len(pre.draw) = 0
    /\ Len(pre.discard) <= 1

\* C21: drawing from an exhausted pile is an explicit error. A draw_card
\* action taken while the draw pile is empty and the discard pile holds at
\* most one card fails with an error message and leaves hands, pending
\* counters, turn holder and turn number unchanged; it never succeeds having
\* drawn nothing.
C21_ExhaustedDrawFails ==
    DrawFromExhausted =>
        /\ ~result.ok
        /\ result.err # ""
        /\ result.st.players = pre.players
        /\ result.st.metadata.pendingDraw = pre.metadata.pendingDraw
        /\ result.st.metadata.attacks_pending = pre.metadata.attacks_pending
        /\ result.st.currentTurnPlayerId = pre.currentTurnPlayerId
        /\ result.st.turnNumber = pre.turnNumber

\* -------------------------------------------------- eliminate and defuse

\* a started two-player room of the game with guarded bombs
InitGuarded ==
    /\ state \in {start_game(add_player_to_state(create_initial_state("guarded_bombs")).st,
                             k1, k2).st : k1 \in Shuffles, k2 \in Shuffles}
    /\ pc = "idle"
    /\ last = NoAction
    /\ pre = state
    /\ result = NoResult
    /\ room = NoRoom(state)
    /\ net = NoNet

\* the eliminate effect puts the played card on the discard pile a second
\* time, so the number of cards can grow without end: requests are taken
\* while the room holds at most MaxCards cards
MaxCards == 5

GuardedAction == Len(CardIds(state)) <= MaxCards /\ RoomAction

NextGuarded == GuardedAction \/ Return

SpecGuarded == InitGuarded /\ [][NextGuarded]_vars

\* the player holds a card of the defuse subtype
HoldsDefuse(s, pid) == \E i \in 1..Len(Hand(s, pid)) : Subtype(s, Hand(s, pid)[i]) = "defuse"

\* how many cards of the defuse subtype the sequence holds
RECURSIVE Defuses(_, _)
Defuses(s, cards) ==
    IF Len(cards) = 0 THEN 0
    ELSE (IF Subtype(s, Head(cards)) = "defuse" THEN 1 ELSE 0) + Defuses(s, Tail(cards))

\* a play_card of the universal engine succeeded for a card whose first
\* effect is an eliminate effect with the condition has_card_type defuse
GuardedEliminateResolved ==
    /\ Returned /\ result.ok /\ last.type = "play_card"
    /\ Game(pre.gameType).plugin = ""
    /\ HasId(Hand(pre, last.playerId), last.cardId)
    /\ \E e \in {Effects(pre, ById(Hand(pre, last.playerId), last.cardId))[1]} :
          e.type = "eliminate" /\ e.conditions = HasDefuse

\* C22: eliminate versus defuse. When an eliminate effect with a has-defuse
\* condition resolves against a player who holds a defuse card, the player is
\* not eliminated, exactly one defuse card moves from the hand to the discard
\* pile and the room awaits the re-insertion by that player; a player who
\* holds no defuse card is eliminated.
C22_EliminateOrDefuse ==
    GuardedEliminateResolved =>
        IF HoldsDefuse(pre, last.playerId)
        THEN /\ PlayerOf(result.st, last.playerId).status # "eliminated"
             /\ Defuses(pre, Hand(result.st, last.playerId))
                    = Defuses(pre, Hand(pre, last.playerId)) - 1
             /\ Defuses(pre, result.st.discard) = Defuses(pre, pre.discard) + 1
             /\ result.st.phase = "awaiting_response"
             /\ result.st.pendingAction.type = "insert_card"
             /\ result.st.pendingAction.playerId = last.playerId
        ELSE PlayerOf(result.st, last.playerId).status = "eliminated"

\* ------------------------------------------------------ voided reactions

\* a nope window with an odd toggle count has been resolved
VoidedResolved == NopeWindowResolved /\ pre.pendingAction.nopeCount % 2 = 1

\* C23: a voided reaction only costs the card. When a nope window resolves
\* with an odd toggle count the played card stays in the discard pile, and
\* every hand, the draw pile, the discard pile, the turn holder, the turn
\* number and the attack counter are as before the resolution; only the
\* pending action is cleared and the phase is playing.
C23_VoidedCostsCard ==
    VoidedResolved =>
        /\ \E i \in 1..Len(result.st.discard) :
              result.st.discard[i].id = pre.pendingAction.card.id
        /\ result.st.players = pre.players
        /\ result.st.draw = pre.draw
        /\ result.st.discard = pre.discard
        /\ result.st.currentTurnPlayerId = pre.currentTurnPlayerId
        /\ result.st.turnNumber = pre.turnNumber
        /\ result.st.metadata.attacks_pending = pre.metadata.attacks_pending
        /\ result.st.pendingAction = NoPending
        /\ result.st.phase = "playing"

\* an Attack that was noped once is resolved: the attacker keeps the turn
\* and no forced draw is added
C23_Witness ==
    /\ VoidedResolved
    /\ pre.pendingAction.nopeCount = 1
    /\ PlayedHas("attack")
    /\ pre.phase = "awaiting_response"
    /\ state.currentTurnPlayerId = pre.pendingAction.playerId

\* ------------------------------------------------------------------ setup

\* the definition ids of the cards in all zones and all hands
DefIdsOf(s) == LET all == s.draw \o s.discard \o Hands(s.players, 1)
               IN [i \in 1..Len(all) |-> all[i].definitionId]

\* the definition ids of the cards in the hands of the first n players
DefIdsDealt(s, n) == LET all == Hands(SubSeq(s.players, 1, n), 1)
                     IN [i \in 1..Len(all) |-> all[i].definitionId]

\* the ids of the cards of the start deck
StartDeckIds(g) == {c.id : c \in Range(build_deck_from_definitions(g.cards))}

\* what the setup promises for the state s it leaves
SetupPost(s) ==
    LET g == Game(s.gameType)
        P == Len(s.players)
        ids == CardIds(s)
    IN /\ \A i, j \in 1..Len(ids) : ids[i] = ids[j] => i = j
       /\ \A k \in 1..Len(g.cards) :
             Count(DefIdsOf(s), g.cards[k].id) =
                 (IF g.cards[k].notInStartDeck THEN 0 ELSE g.cards[k].count)
                 + (IF g.cards[k].injectCount.mode = "players_minus_one"
                    THEN P - 1 ELSE g.cards[k].injectCount.n)
       /\ Len(build_deck_from_definitions(g.cards)) >= P * g.rules.handSize =>
             \A i \in 1..P : Len(s.players[i].hand) = g.rules.handSize
       /\ \A i \in 1..P, k \in 1..Len(g.cards) :
             (g.cards[k].guaranteedInStartHand /\ ~g.cards[k].notInStartDeck) =>
                 \/ Count(DefIdsDealt(s, i), g.cards[k].id)
                        > Count(DefIdsDealt(s, i - 1), g.cards[k].id)
                 \/ Count(DefIdsDealt(s, i - 1), g.cards[k].id) = g.cards[k].count
       /\ \A i \in 1..P : HandIds(s, i) \subseteq StartDeckIds(g)
       /\ s.currentTurnPlayerId = s.players[1].id
       /\ \A i \in 1..P : s.players[i].isCurrentTurn <=> (i = 1)
       /\ s.turnNumber = 1
       /\ s.phase = "playing"

SameCards(a, b) ==
    /\ Len(a) = Len(b)
    /\ \A x \in Range(a) \cup Range(b) : Count(a, x) = Count(b, x)

\* the number of cards a draw_card of the universal engine asks for
DrawAsked(s) ==
    IF s.metadata.pendingDraw > 0 THEN s.metadata.pendingDraw
    ELSE Game(s.gameType).rules.drawCount

\* a draw_card of the universal engine was carried out although the draw
\* pile held fewer cards than asked for, the discard pile more than one
RecyclingDraw ==
    /\ DrawDone
    /\ Game(pre.gameType).plugin # "exploding_kittens"
    /\ Len(pre.draw) < DrawAsked(pre)
    /\ Len(pre.discard) > 1

\* the cards the player who sent the request received
Received == SubSeq(Hand(result.st, last.playerId),
                   Len(Hand(pre, last.playerId)) + 1, Len(Hand(result.st, last.playerId)))

\* C25: deck recycling. When a draw needs cards from an emptied draw pile and
\* the discard pile holds more than one card, then after recycling the
\* discard pile consists of exactly its former top card, and the draw pile
\* (with the cards just drawn from it) consists of its former cards plus
\* every other former discard card: no card is lost or duplicated. The
\* plugin's own refill in _draw_extreme does the same.
C25_DeckRecycling ==
    /\ RecyclingDraw =>
          /\ result.st.discard = <<pre.discard[1]>>
          /\ SameCards(Received \o result.st.draw, pre.draw \o Tail(pre.discard))
          /\ SubSeq(Hand(result.st, last.playerId), 1, Len(Hand(pre, last.playerId)))
                 = Hand(pre, last.playerId)
    /\ (Game(state.gameType).plugin = "uno_plus_1000" /\ InProgress(state)
            /\ Len(state.draw) = 0 /\ Len(state.discard) > 1) =>
          \A i \in 1..Len(state.players) :
             \E t \in {_draw_extreme(state, state.players[i].id, 2, 0, 0)} :
                /\ t.discard = <<state.discard[1]>>
                /\ SameCards(t.draw \o t.players[i].hand,
                             Tail(state.discard) \o state.players[i].hand)

\* a draw from an empty draw pile that was refilled from the discard pile
C25_Witness ==
    /\ RecyclingDraw
    /\ Len(pre.draw) = 0
    /\ Len(Received) = 1
    /\ Len(result.st.discard) = 1

\* -------------------------------------------------- unknown effect types

\* the card the request names, in the hand of the player who sent it
PlayedCard == ById(Hand(pre, last.playerId), last.cardId)

\* a play_card of the universal engine was answered for a playable card of
\* the current player that lists an effect type without a handler
UnknownEffectPlayed ==
    /\ Returned /\ last.type = "play_card"
    /\ Game(pre.gameType).plugin = ""
    /\ pre.phase = "playing"
    /\ last.playerId = pre.currentTurnPlayerId
    /\ HasId(Hand(pre, last.playerId), last.cardId)
    /\ _can_play_card(PlayedCard, pre)
    /\ \E i \in 1..Len(Effects(pre, PlayedCard)) :
          ~KnownEffect(pre, Effects(pre, PlayedCard)[i].type)

\* the card with the definition that lists the same effects without the
\* unknown one
Plain(c) == IF c.definitionId = "cat" THEN [c EXCEPT !.definitionId = "plain_cat"] ELSE c

\* the state in which the cards of the hands are the plain ones
PlainHands(s) ==
    [s EXCEPT !.players = [i \in 1..Len(s.players) |->
        [s.players[i] EXCEPT !.hand = [j \in 1..Len(s.players[i].hand) |->
                                          Plain(s.players[i].hand[j])]]]]

\* the answer to the same request when the card has no unknown effect
PlainResult == apply_action(PlainHands(pre), last)

LobbyRequest(type, pid, name) == [type |-> type, playerId |-> pid, name |-> name]

InitLobby == Init

\* rooms.join_room
JoinRequest ==
    /\ \E name \in Names :
          \E r \in {AddPlayer(state, name)} :
             /\ last' = LobbyRequest("join", 0, name)
             /\ result' = Ret(r.ok, r.err, <<>>, r.st)
             /\ state' = IF r.ok THEN r.st ELSE state
    /\ pre' = state
    /\ pc' = "returned"
    /\ UNCHANGED <<room, net>>

\* rooms.start_room, sent by any player of the room or by a stranger
StartRequest ==
    /\ \E pid \in 1..(Len(state.players) + 1), k1 \in Shuffles, k2 \in Shuffles :
          \E r \in {start_room(state, pid, k1, k2, FALSE)} :
             /\ last' = LobbyRequest("start", pid, "")
             /\ result' = Ret(r.ok, r.err, <<>>, r.st)
             /\ state' = IF r.ok THEN r.st ELSE state
    /\ pre' = state
    /\ pc' = "returned"
    /\ UNCHANGED <<room, net>>

\* the game goes on during its first turn
FirstTurnAction == state.turnNumber <= 1 /\ RoomAction

NextLobby == JoinRequest \/ StartRequest \/ FirstTurnAction \/ Return

SpecLobby == InitLobby /\ [][NextLobby]_vars

JoinAnswered == Returned /\ last.type = "join"
StartAnswered == Returned /\ last.type = "start"

\* C27: a room's game is set up at most once. A start succeeds only while
\* the phase is lobby, only for the host and only with at least minPlayers
\* players; every other start attempt fails and leaves the state unchanged.
\* A join after the start, into a full room or with a name already taken
\* (ignoring case) fails and leaves the player list unchanged, also when
\* requests are handled while others are still in flight.
C27_SetupOnce ==
    /\ StartAnswered =>
          /\ result.ok <=> /\ pre.phase = "lobby"
                           /\ last.playerId = pre.metadata.hostId
                           /\ Len(pre.players) >= Game(pre.gameType).rules.minPlayers
          /\ result.ok => /\ state.phase = "playing" /\ state.turnNumber = 1
                          /\ pre.turnNumber = 0
          /\ ~result.ok => state = pre /\ result.st = pre /\ result.err # ""
    /\ JoinAnswered =>
          /\ (\/ pre.phase # "lobby"
              \/ Len(pre.players) >= Game(pre.gameType).rules.maxPlayers
              \/ \E i \in 1..Len(pre.players) :
                    Lower(pre.players[i].name) = Lower(last.name)) =>
                 /\ ~result.ok
                 /\ state.players = pre.players
                 /\ state = pre
          /\ result.ok => Len(state.players) = Len(pre.players) + 1
    /\ state.phase # "lobby" => state.turnNumber >= 1

\* a second start, sent by the host while the game is in play, was refused
C27_Witness ==
    /\ StartAnswered
    /\ pre.phase \in {"playing", "awaiting_response"}
    /\ last.playerId = pre.metadata.hostId
    /\ ~result.ok
    /\ state = pre

\* ------------------------------------------------------ pending actions

\* some request of some player is accepted in state s and leaves no pending
\* action of the type that was pending
CanResolve(s) ==
    \E a \in Requests(s), rnd \in Rnd :
       \E r \in {apply_action(s, [a EXCEPT !.rnd = rnd])} :
          /\ r.ok
          /\ r.st.pendingAction.type # s.pendingAction.type

\* C28: no room gets stuck awaiting a response. From every reachable state
\* with phase awaiting_response there is at least one action by some player
\* that apply_action accepts and that clears the pending action.
C28_NoStuckAwaiting ==
    state.phase = "awaiting_response" => CanResolve(state)

\* a play_card or draw_card request was answered while the room awaited a
\* response
TurnFlowWhilePending ==
    /\ Returned
    /\ last.type \in {"play_card", "draw_card"}
    /\ pre.phase = "awaiting_response"
    /\ pre.pendingAction.type # "none"

\* C29: a pending action suspends normal turn flow. While the phase is
\* awaiting_response every play_card and every draw_card action by any
\* player fails and leaves hands, zones, turn holder and the pending action
\* unchanged.
C29_PendingSuspendsTurn ==
    TurnFlowWhilePending =>
        /\ ~result.ok
        /\ result.st.players = pre.players
        /\ result.st.draw = pre.draw
        /\ result.st.discard = pre.discard
        /\ result.st.currentTurnPlayerId = pre.currentTurnPlayerId
        /\ result.st.pendingAction = pre.pendingAction

\* a started three-player room of the game with the Wild Draw challenge
InitChallenge ==
    /\ state \in {start_game(add_player_to_state(add_player_to_state(
                                 create_initial_state("uno_challenge")).st).st, k1, k2).st :
                     k1 \in Shuffles, k2 \in Shuffles}
    /\ pc = "idle"
    /\ last = NoAction
    /\ pre = state
    /\ result = NoResult
    /\ room = NoRoom(state)
    /\ net = NoNet

SpecChallenge == InitChallenge /\ [][NextRainbow]_vars

\* the player a pending action names as the one to respond
Responder(p) == IF p.type \in {"give_card", "favor"} THEN p.targetPlayerId ELSE p.playerId

\* the pending action types with one eligible responder
ResponderTypes == {"choose_color", "insert_card", "insert_exploding",
                   "challenge_or_accept", "give_card", "favor"}

\* the action types that resolve a pending action
ResolvingTypes == {"choose_color", "insert_card", "insert_exploding", "challenge",
                   "challenge_wild_draw4", "select_target", "give_card"}

\* a request was answered while the room awaited the response of one player
AwaitingResponder ==
    /\ Returned
    /\ pre.phase = "awaiting_response"
    /\ pre.pendingAction.type \in ResponderTypes

\* C30: only an eligible player resolves a pending action. A pending action
\* is cleared, and the phase leaves awaiting_response, only by an action of
\* the player the pending action names as responder; a resolving action sent
\* by any other player fails and leaves the state unchanged.
C30_OnlyResponderResolves ==
    AwaitingResponder =>
        /\ (result.ok /\ (\/ result.st.pendingAction # pre.pendingAction
                          \/ result.st.phase # "awaiting_response")) =>
              last.playerId = Responder(pre.pendingAction)
        /\ (last.type \in ResolvingTypes /\ last.playerId # Responder(pre.pendingAction)) =>
              /\ ~result.ok
              /\ result.st = pre

\* ------------------------------------------------------- C31: seating order

\* the seat reached from seat i after k steps in direction d
SeatAt(s, i, d, k) == ((i - 1 + d * k) % Len(s.players)) + 1

\* the first player in seating order, in the direction of play, after the
\* player pid among the players of s that are not eliminated; 0 when every
\* other player is eliminated
SeatSuccessor(s, pid) ==
    LET i == _get_player(s, pid)
        d == _direction(s)
        steps == {k \in 1..Len(s.players) - 1 :
                     s.players[SeatAt(s, i, d, k)].status # "eliminated"}
    IN IF steps = {} THEN 0
       ELSE s.players[SeatAt(s, i, d, CHOOSE k \in steps : \A j \in steps : k <= j)].id

\* a draw of the current player ended their turn and the game goes on: a turn
\* advance without skip
DrawAdvanced ==
    /\ DrawDone
    /\ pre.phase = "playing" /\ result.st.phase = "playing"
    /\ result.st.turnNumber = pre.turnNumber + 1

\* the current player was eliminated by their own draw
DrawerEliminated ==
    /\ DrawAdvanced
    /\ PlayerOf(pre, last.playerId).status # "eliminated"
    /\ PlayerOf(result.st, last.playerId).status = "eliminated"

\* C31: turn succession follows seating order among the non-eliminated
\* players. After every turn advance without skip the new current player is
\* the first non-eliminated player after the previous current player in
\* seating order, in the direction of play, also when the previous current
\* player has just been eliminated on their own turn.
C31_SeatingOrder ==
    DrawAdvanced =>
        result.st.currentTurnPlayerId = SeatSuccessor(result.st, pre.currentTurnPlayerId)

\* the same for the draws of a player who stays in the game
C31_SeatingOrderOfSurvivors ==
    (DrawAdvanced /\ PlayerOf(result.st, last.playerId).status # "eliminated") =>
        result.st.currentTurnPlayerId = SeatSuccessor(result.st, pre.currentTurnPlayerId)

\* C31, the elimination case alone: when a player who was in the game is
\* eliminated by their own draw, the turn goes to the first non-eliminated
\* player after them in seating order
C31_EliminationKeepsOrder ==
    DrawerEliminated =>
        result.st.currentTurnPlayerId = SeatSuccessor(result.st, pre.currentTurnPlayerId)

\* ------------------------------------------------ C32: Skip under an attack

\* a Skip of the current player, who is in the game, was resolved without
\* being voided
SkipResolved ==
    /\ NopeWindowResolved /\ PlayedHas("skip")
    /\ Game(pre.gameType).plugin = "exploding_kittens"
    /\ pre.pendingAction.nopeCount % 2 = 0
    /\ PlayerOf(pre, pre.currentTurnPlayerId).status \notin {"eliminated", "winner"}

\* C32: Skip cancels exactly one attack turn. When a Skip resolves while the
\* current player owes attacks_pending = k > 0 turns, attacks_pending becomes
\* k - 1 and the player keeps the turn if k - 1 > 0, the turn passing only
\* when k - 1 = 0; when k = 0 the Skip passes the turn. No card is drawn.
C32_SkipCancelsOneAttack ==
    SkipResolved =>
        LET k == pre.metadata.attacks_pending
        IN /\ Len(result.st.draw) = Len(pre.draw)
           /\ k > 0 => result.st.metadata.attacks_pending = k - 1
           /\ k > 1 => /\ result.st.currentTurnPlayerId = pre.currentTurnPlayerId
                       /\ TurnDelta = 0
           /\ k <= 1 => /\ result.st.currentTurnPlayerId # pre.currentTurnPlayerId
                        /\ TurnDelta = 1

\* the part of C32 for a player who owes no attack turn
C32_SkipWithoutAttack ==
    (SkipResolved /\ pre.metadata.attacks_pending = 0) =>
        /\ Len(result.st.draw) = Len(pre.draw)
        /\ result.st.metadata.attacks_pending = 0
        /\ result.st.currentTurnPlayerId # pre.currentTurnPlayerId
        /\ TurnDelta = 1

\* ------------------------------------------------------ C33: attacks stack

\* a started two-player room of the game with two Attacks
InitParty ==
    /\ state \in {start_game(add_player_to_state(create_initial_state("kittens_party")).st,
                             k1, k2).st : k1 \in Shuffles, k2 \in Shuffles}
    /\ pc = "idle"
    /\ last = NoAction
    /\ pre = state
    /\ result = NoResult
    /\ room = NoRoom(state)
    /\ net = NoNet

SpecParty == InitParty /\ [][NextRainbow]_vars

\* an Attack of the current player, who is in the game, was resolved without
\* being voided
AttackResolved ==
    /\ NopeWindowResolved /\ PlayedHas("attack")
    /\ Game(pre.gameType).plugin = "exploding_kittens"
    /\ pre.pendingAction.nopeCount % 2 = 0
    /\ PlayerOf(pre, pre.currentTurnPlayerId).status \notin {"eliminated", "winner"}

\* a player in the game who is under attack made a turn-ending draw and is
\* still in the game: a card other than the exploding card was drawn, or the
\* defused exploding card was put back
AttackedDrawEnded ==
    /\ Returned /\ result.ok
    /\ Game(pre.gameType).plugin = "exploding_kittens"
    /\ last.playerId = pre.currentTurnPlayerId
    /\ pre.metadata.attacks_pending > 0
    /\ \/ /\ last.type = "draw_card"
          /\ SenderActive
          /\ Subtype(pre, pre.draw[1]) # "exploding"
       \/ /\ last.type = "insert_exploding"
          /\ pre.pendingAction.type = "insert_exploding"

\* C33: attacks stack. Resolving an Attack while the attacker owes k >= 0
\* attack turns passes the turn to the next active player without a draw and
\* sets attacks_pending to k + 2. Every turn-ending draw of the attacked
\* player lowers attacks_pending by exactly one and the player keeps the turn
\* until it reaches 0, so the turn passes on with the (k + 2)-th draw.
\* attacks_pending is never negative.
C33_AttacksStack ==
    /\ state.metadata.attacks_pending >= 0
    /\ Returned => result.st.metadata.attacks_pending >= 0
    /\ AttackResolved =>
          /\ result.st.metadata.attacks_pending = pre.metadata.attacks_pending + 2
          /\ result.st.currentTurnPlayerId = SeatSuccessor(pre, pre.currentTurnPlayerId)
          /\ TurnDelta = 1
          /\ result.st.draw = pre.draw
          /\ \A i \in 1..Len(pre.players) :
                Len(result.st.players[i].hand) = Len(pre.players[i].hand)
    /\ AttackedDrawEnded =>
          /\ result.st.metadata.attacks_pending = pre.metadata.attacks_pending - 1
          /\ IF pre.metadata.attacks_pending > 1
             THEN result.st.currentTurnPlayerId = pre.currentTurnPlayerId
             ELSE result.st.currentTurnPlayerId = SeatSuccessor(pre, pre.currentTurnPlayerId)

\* an Attack was answered with an Attack: the player who owed 2 turns passes
\* 4 on
C33_Witness ==
    /\ AttackResolved
    /\ pre.metadata.attacks_pending = 2
    /\ result.st.metadata.attacks_pending = 4

\* the last of the owed draws passes the turn on
C33_LastDraw ==
    /\ AttackedDrawEnded
    /\ pre.metadata.attacks_pending = 1
    /\ result.st.currentTurnPlayerId # pre.currentTurnPlayerId

\* ------------------------------------- C34: playing cards keeps the turn

\* the call changed who holds the turn or the turn number
TurnMoved ==
    \/ result.st.currentTurnPlayerId # pre.currentTurnPlayerId
    \/ result.st.turnNumber # pre.turnNumber

\* the call resolved the nope window of a Skip or an Attack that was not
\* voided
SkipOrAttackResolved ==
    /\ last.type = "resolve_nope_window"
    /\ pre.pendingAction.type = "nope_window"
    /\ pre.pendingAction.nopeCount % 2 = 0
    /\ PlayedHas("skip") \/ PlayedHas("attack")

PlayOnPendingDraw ==
    /\ Returned /\ last.type = "play_card"
    /\ _cfg(pre).stackableDraw
    /\ pre.metadata.pendingDraw > 0
    /\ pre.phase = "playing"
    /\ last.playerId = pre.currentTurnPlayerId
    /\ HasId(Hand(pre, last.playerId), last.cardId)

\* the card asked for has a draw effect of the draw value of the top discard
Stackable ==
    /\ Len(DrawEffects(pre, PlayedCard)) > 0
    /\ Len(pre.discard) > 0
    /\ Len(DrawEffects(pre, pre.discard[1])) > 0
    /\ DrawEffects(pre, PlayedCard)[1].value = DrawEffects(pre, pre.discard[1])[1].value

\* C35: only stackable draw cards are allowed on a pending draw. With draw
\* stacking enabled and a pending draw total above 0, play_card is accepted
\* only for a card with a draw or wild_draw effect whose value equals the draw
\* value of the top discard card; every other card (number, skip, reverse,
\* plain wild) is rejected with the state unchanged.
C35_OnlyStackableOnPendingDraw ==
    (PlayOnPendingDraw /\ ~Stackable) => (~result.ok /\ result.st = pre)

\* the same for the cards that are not wild, played on a draw card
C35_ColouredCardsOnPendingDraw ==
    (PlayOnPendingDraw /\ ~Stackable /\ PlayedCard.color # "wild"
        /\ Subtype(pre, PlayedCard) # "wild"
        /\ Len(DrawEffects(pre, pre.discard[1])) > 0) =>
        (~result.ok /\ result.st = pre)

\* a number card is refused while a draw is pending
C35_NumberRefused ==
    /\ PlayOnPendingDraw /\ ~Stackable
    /\ Subtype(pre, PlayedCard) = "number"
    /\ ~result.ok

\* ------------------------------------------ C36: the challenge sub-protocol

\* a started room of the uno game with two or with three players
InitUno ==
    /\ state \in {start_game(room2, k1, k2).st :
                     room2 \in {add_player_to_state(create_initial_state("uno")).st,
                                add_player_to_state(add_player_to_state(
                                    create_initial_state("uno")).st).st},
                     k1 \in Shuffles, k2 \in Shuffles}
    /\ pc = "idle"
    /\ last = NoAction
    /\ pre = state
    /\ result = NoResult
    /\ room = NoRoom(state)
    /\ net = NoNet

SpecUno == InitUno /\ [][NextRainbow]_vars

\* the call opened a challenge window
ChallengeOpened ==
    /\ Returned /\ result.ok
    /\ pre.pendingAction.type # "challenge_or_accept"
    /\ result.st.pendingAction.type = "challenge_or_accept"

\* the call resolved the challenge window
ChallengeResolved ==
    /\ Returned /\ result.ok
    /\ pre.pendingAction.type = "challenge_or_accept"
    /\ last.type \in {"challenge", "challenge_wild_draw4", "select_target"}

\* the cards a draw can reach in s: the draw pile and the discard pile below
\* its top card
Available(s) == Len(s.draw) + (IF Len(s.discard) > 1 THEN Len(s.discard) - 1 ELSE 0)

\* by how many cards the hand of player pid grew in the call
Growth(pid) == Len(Hand(result.st, pid)) - Len(Hand(pre, pid))

\* the challenged play was illegal: its player held another card of the
\* active colour
PlayWasIllegal ==
    \E i \in 1..Len(Hand(pre, last.playerId)) :
        /\ Hand(pre, last.playerId)[i].id # last.cardId
        /\ Hand(pre, last.playerId)[i].color = pre.metadata.activeColor

C36_LegalChallenged ==
    /\ ChallengeResolved /\ last.challenge
    /\ ~pre.metadata.lastWildDraw4WasIllegal
    /\ Growth(pre.pendingAction.playerId) = pre.pendingAction.drawCount + 2

\* the responder accepted and drew drawCount cards
C36_Accepted ==
    /\ ChallengeResolved /\ ~last.challenge
    /\ Growth(pre.pendingAction.playerId) = pre.pendingAction.drawCount
    /\ pre.pendingAction.drawCount > 0

\* ------------------------------------------------------------ C37: reverse

\* a card with a reverse effect was played by the current player of a game of
\* the universal engine and the game goes on
ReversePlayed ==
    /\ PlayedEffect("reverse") /\ result.ok
    /\ Game(pre.gameType).plugin # "exploding_kittens"
    /\ pre.phase = "playing" /\ result.st.phase = "playing"

\* the two-player rule applies: exactly two active players and
\* reverseEqualsSkipTwoPlayers
ReverseIsSkip(s) == Len(_active(s)) = 2 /\ _cfg(s).reverseEqualsSkipTwoPlayers

\* C37: reverse. The direction is always +1 or -1. A resolved reverse effect
\* negates the direction and the turn passes to the neighbour in the new
\* direction, so that a second reverse restores the direction; with exactly
\* two active players and reverseEqualsSkipTwoPlayers the reverse leaves the
\* direction unchanged and acts as skip 1: the player who played it takes the
\* next turn.
C37_Reverse ==
    /\ state.metadata.direction \in {1, -1}
    /\ Returned => result.st.metadata.direction \in {1, -1}
    /\ ReversePlayed =>
          /\ TurnDelta = 1
          /\ IF ReverseIsSkip(pre)
             THEN /\ _direction(result.st) = _direction(pre)
                  /\ result.st.currentTurnPlayerId = pre.currentTurnPlayerId
             ELSE /\ _direction(result.st) = -_direction(pre)
                  /\ result.st.currentTurnPlayerId
                        = SeatSuccessor(result.st, pre.currentTurnPlayerId)

\* a second reverse in a three-player room restores the direction
C37_Witness ==
    /\ ReversePlayed /\ ~ReverseIsSkip(pre)
    /\ _direction(pre) = -1
    /\ _direction(result.st) = 1

\* a reverse in a two-player room: the player keeps the turn
C37_TwoPlayers ==
    /\ ReversePlayed /\ ReverseIsSkip(pre)
    /\ result.st.currentTurnPlayerId = pre.currentTurnPlayerId

\* --------------------------------------------------------- C38: plugin veto

\* a started two-player room of the game whose plugin vetoes blue cards
InitHouse ==
    /\ state \in {start_game(add_player_to_state(create_initial_state("house_stack")).st,
                             k1, k2).st : k1 \in Shuffles, k2 \in Shuffles}
    /\ pc = "idle"
    /\ last = NoAction
    /\ pre = state
    /\ result = NoResult
    /\ room = NoRoom(state)
    /\ net = NoNet

SpecHouse == InitHouse /\ [][NextRainbow]_vars

\* the current player asked to play a playable card of their hand and the
\* plugin's on_card_played hook, which did not raise, returned valid = false
HookVetoed ==
    /\ Returned /\ last.type = "play_card" /\ ~last.fault
    /\ pre.phase = "playing"
    /\ last.playerId = pre.currentTurnPlayerId
    /\ HasId(Hand(pre, last.playerId), last.cardId)
    /\ _can_play_card(PlayedCard, pre)
    /\ ~on_card_played(pre, last.playerId, PlayedCard).valid

\* C38: a plugin veto rejects the play cleanly. When the plugin's
\* on_card_played hook returns valid = false for a play_card action, the
\* action fails with the hook's error message, the card remains in the
\* player's hand, the discard pile is unchanged, no effect of the card is
\* applied and the turn holder and the turn number are unchanged.
C38_PluginVeto ==
    HookVetoed =>
        /\ ~result.ok
        /\ result.err = on_card_played(pre, last.playerId, PlayedCard).err
        /\ HasId(Hand(result.st, last.playerId), last.cardId)
        /\ result.st.players = pre.players
        /\ result.st.discard = pre.discard
        /\ result.st.draw = pre.draw
        /\ result.st.metadata = pre.metadata
        /\ result.st.pendingAction = pre.pendingAction
        /\ result.st.phase = pre.phase
        /\ result.st.currentTurnPlayerId = pre.currentTurnPlayerId
        /\ result.st.turnNumber = pre.turnNumber
        /\ state = pre

\* the playable blue skip was vetoed with the hook's message
C38_Witness ==
    /\ HookVetoed
    /\ Len(Effects(pre, PlayedCard)) > 0
    /\ Effects(pre, PlayedCard)[1].type = "skip"
    /\ result.err = "House rule: no blue cards"
    /\ result.st = pre

\* ------------------------------------------------- overlapping broadcasts
\* room_action coroutines of one room whose broadcasts overlap: every viewer
\* of the room holds an open socket, and each coroutine is suspended at the
\* await of each of its sends

\* broadcast_state of task t sends the view of its snapshot to the key it has
\* reached: the viewer receives it, and the loop moves to the next key
SendToViewer(n, t) ==
    [n EXCEPT !.inbox = Append(@, [pid |-> n.bcast[t].keys[n.bcast[t].i],
                                   ver |-> n.bcast[t].ver,
                                   view |-> View(n.bcast[t].snap[1],
                                                 n.bcast[t].keys[n.bcast[t].i])]),
              !.bcast[t].i = @ + 1]

\* broadcast_state entered by task t right after its save_state: get_state
\* returns the state just saved, the keys are listed, the first view is sent
BeginBroadcast(n, rs, t) ==
    SendToViewer([n EXCEPT !.bcast[t] = [snap |-> <<rs.state>>, keys |-> n.conns,
                                         i |-> 1, ver |-> Len(rs.room.applied)]], t)

\* a started two-player room of Exploding Kittens with both players' sockets
\* registered
InitViewers ==
    /\ state \in {start_game(add_player_to_state(
                        create_initial_state("exploding_kittens")).st, k1, k2).st :
                    k1 \in Shuffles, k2 \in Shuffles}
    /\ pc = "idle"
    /\ last = NoAction
    /\ pre = state
    /\ result = NoResult
    /\ room = NoRoom(state)
    /\ net = [NoNet EXCEPT !.conns = <<1, 2>>, !.up = {1, 2}]

\* the event loop runs the arrived task t: get_state, apply_action, save_state
\* and broadcast_state up to the await of its first send, or its return when
\* the request is refused
ActSaveAndSend(t) ==
    /\ room.tasks[t].pc = "get_state"
    /\ \E rs \in {RunTask([room |-> room, state |-> state], t)} :
          /\ room' = rs.room
          /\ state' = rs.state
          /\ net' = IF rs.room.tasks[t].pc = "broadcast_state"
                    THEN BeginBroadcast(net, rs, t) ELSE net
    /\ UNCHANGED <<pc, last, pre, result>>

\* the awaited send of task t completes and the task runs to its next await:
\* the send to the next key, or the return of broadcast_state after the last
SendNext(t) ==
    /\ room.tasks[t].pc = "broadcast_state"
    /\ IF net.bcast[t].i <= Len(net.bcast[t].keys)
       THEN /\ net' = SendToViewer(net, t)
            /\ room' = room
       ELSE /\ room' = [room EXCEPT !.tasks[t].pc = "done"]
            /\ net' = net
    /\ UNCHANGED <<state, pc, last, pre, result>>

NextViewers == \E t \in 1..MaxTasks : Arrive(t) \/ ActSaveAndSend(t) \/ SendNext(t)

SpecViewers == InitViewers /\ [][NextViewers]_vars

\* the positions of the state_updates viewer pid received, in order of receipt
ReceivedBy(pid) == {j \in 1..Len(net.inbox) : net.inbox[j].pid = pid}

\* no broadcast_state call is suspended at a send
NoBroadcastInFlight == \A t \in 1..MaxTasks : room.tasks[t].pc # "broadcast_state"

\* C39: viewers converge on the latest state. When state-changing requests of
\* one room overlap, no viewer receives the view of an older saved state after
\* the view of a newer one, and once all in-flight broadcasts have finished
\* the last state_update each connected viewer received is the view of the
\* room's latest saved state.
C39_ViewersConverge ==
    /\ \A j, k \in 1..Len(net.inbox) :
          (j < k /\ net.inbox[j].pid = net.inbox[k].pid)
              => net.inbox[j].ver <= net.inbox[k].ver
    /\ (NoBroadcastInFlight /\ Len(room.applied) > 0) =>
          \A pid \in net.up :
              /\ ReceivedBy(pid) # {}
              /\ \A j \in ReceivedBy(pid) :
                    (\A k \in ReceivedBy(pid) : k <= j)
                        => net.inbox[j].view = View(state, pid)

\* ------------------------------------------------------ winner consistency

\* the players of s whose status is winner
Winners(s) == {i \in 1..Len(s.players) : s.players[i].status = "winner"}

\* C40: winner consistency. In every reachable state the phase is ended if
\* and only if the winner is set; when it is set the winner is one of the
\* room's players, that player has status winner, no other player has status
\* winner, and the winner was not eliminated.
C40_WinnerConsistency ==
    /\ (state.phase = "ended") <=> (state.winner # 0)
    /\ state.winner # 0 =>
          /\ \E i \in 1..Len(state.players) : state.players[i].id = state.winner
          /\ Winners(state) = {i \in 1..Len(state.players) :
                                  state.players[i].id = state.winner}
          /\ PlayerOf(pre, state.winner).status # "eliminated"

====
